---- MODULE Spec2Model ----
(***************************************************************************)
(* A model of the executor/resolver layer of the Piping extension:         *)
(* PythonExecutor (interpreter resolution, pip location, package listing,  *)
(* batch update), the environment tree provider (scan, setActive) and the  *)
(* package tree provider (held package list).                              *)
(*                                                                         *)
(* Paths are tuples of path segments (path.join is concatenation).         *)
(* External processes and the file system are the host: their outcomes are *)
(* inputs, drawn from small sets.                                          *)
(***************************************************************************)
EXTENDS Naturals, Sequences, FiniteSets, TLC

VARIABLES
    host,          \* the host: platform, Python extension, setting, PATH lookups, --version outcomes
    fs,            \* the file system: directories, regular files, files that pass X_OK
    currentEnv,    \* PythonExecutor._currentEnv (NoEnv when undefined)
    environments,  \* PipingEnvironmentProvider._environments
    packages,      \* PipingPackageProvider._packages
    ops,           \* the calls into PythonExecutor that are in flight or have returned
    scan,          \* the environment provider's getChildren call in flight
    prevEnv,       \* history: _currentEnv before the last assignment that changed it
    panel          \* PipingDashboardPanel.currentPanel and what its webview shows

vars == <<host, fs, currentEnv, environments, packages, ops, scan, prevEnv, panel>>

----------------------------------------------------------------------------
(* Bounds *)

\* the longest installed-package list a 'pip list' reports
MaxPkgs == 2
\* the longest list a 'pip list --outdated' reports
MaxOutdated == 2
\* the longest argument of updatePackages
MaxNames == 2

----------------------------------------------------------------------------
(* Data *)

None == <<>>

PkgNames == {"requests", "flask"}
Versions == {"2.28.0", "2.31.0"}
Summaries == {"HTTP for Humans"}

\* interpreter candidates
PySetting == <<"opt", "py", "python">>
PyUsr3 == <<"usr", "bin", "python3">>
PyUsr == <<"usr", "bin", "python">>
PyLocal3 == <<"usr", "local", "bin", "python3">>
PyWin == <<"C:", "Python", "python.exe">>

\* stdout.toLowerCase().includes('python')
IncludesPython(text) == text \in {"Python 3.11.4", "python 3.11.4", "PYTHON 3.11.4"}

NoEnv == [name |-> "", path |-> None]

Root1 == <<"ws1">>
Root2 == <<"ws2">>

----------------------------------------------------------------------------
(* Platform-dependent names *)

PythonCommands(h) ==
    IF h.win32 THEN <<"python.exe", "python3.exe", "py.exe">>
    ELSE <<"python3", "python">>

BinDir(h) == IF h.win32 THEN "Scripts" ELSE "bin"

PipCommand(h) == IF h.win32 THEN "pip.exe" ELSE "pip"

PythonExe(h) == IF h.win32 THEN <<"Scripts", "python.exe">> ELSE <<"bin", "python">>

----------------------------------------------------------------------------
(* Interpreter resolution *)

\* the outcome of cp.exec: rejected iff (error && stderr), else the stdout
ExecResult(rejected, stdout) == [rejected |-> rejected, stdout |-> stdout]

\* executeSystemCommand(`"${pythonPath}" --version`)
VersionProbe(h, pythonPath) ==
    IF pythonPath \in DOMAIN h.version THEN h.version[pythonPath]
    ELSE ExecResult(TRUE, "")

testPythonPath(h, pythonPath) ==
    LET r == VersionProbe(h, pythonPath)
    IN  IF r.rejected THEN FALSE ELSE IncludesPython(r.stdout)

\* what one resolution did: an entry per process run through executeSystemCommand
WhichEvent(cmd) == [kind |-> "which", arg |-> <<cmd>>]
VersionEvent(p) == [kind |-> "version", arg |-> p]

Resolved(p, trace) == [ok |-> TRUE, path |-> p, trace |-> trace]
NotFound(trace) == [ok |-> FALSE, path |-> None, trace |-> trace]

\* the candidate the Python extension's setting gives, None without one
ConfiguredPath(h) == IF h.pythonExtension THEN h.defaultInterpreterPath ELSE None

RECURSIVE ProbePath(_, _, _)
ProbePath_NoShortCircuit(h, i, trace) ==
    LET cmds == PythonCommands(h)
    IN  IF i > Len(cmds) THEN NotFound(trace)
        ELSE LET w == h.which[cmds[i]]
                 t1 == Append(trace, WhichEvent(cmds[i]))
             IN  IF w.rejected \/ w.stdout = <<>> THEN ProbePath(h, i + 1, t1)
                 ELSE LET pythonPath == w.stdout[1]
                          t2 == Append(t1, VersionEvent(pythonPath))
                          rest == ProbePath(h, i + 1, t2)
                      IN  IF testPythonPath(h, pythonPath) THEN Resolved(pythonPath, rest.trace)
                          ELSE rest

\* the PATH loop of getPythonPath, from the i-th command name on
ProbePath(h, i, trace) ==
    LET cmds == PythonCommands(h)
    IN  IF i > Len(cmds) THEN NotFound(trace)
        ELSE LET w == h.which[cmds[i]]
                 t1 == Append(trace, WhichEvent(cmds[i]))
             IN  IF w.rejected \/ w.stdout = <<>> THEN ProbePath(h, i + 1, t1)
                 ELSE LET pythonPath == w.stdout[1]
                          t2 == Append(t1, VersionEvent(pythonPath))
                      IN  IF testPythonPath(h, pythonPath) THEN Resolved(pythonPath, t2)
                          ELSE ProbePath(h, i + 1, t2)

getPythonPath(h) ==
    LET pythonPath == ConfiguredPath(h)
    IN  IF pythonPath # None
        THEN LET t == <<VersionEvent(pythonPath)>>
             IN  IF testPythonPath(h, pythonPath) THEN Resolved(pythonPath, t)
                 ELSE ProbePath(h, 1, t)
        ELSE ProbePath(h, 1, <<>>)

----------------------------------------------------------------------------
(* Package-manager location *)

Descriptor(command, args, trace) ==
    [ok |-> TRUE, command |-> command, args |-> args, envPath |-> None, trace |-> trace]
NoDescriptor(trace) ==
    [ok |-> FALSE, command |-> None, args |-> <<>>, envPath |-> None, trace |-> trace]

PipPath(h, env) == env.path \o <<BinDir(h), PipCommand(h)>>

\* python -m pip
ModuleForm(h) ==
    LET r == getPythonPath(h)
    IN  IF r.ok THEN Descriptor(r.path, <<"-m", "pip">>, r.trace)
        ELSE NoDescriptor(r.trace)

getPipCommand_Stale(h, f, env) ==
    LET used == IF prevEnv # NoEnv THEN prevEnv ELSE env
    IN  IF used # NoEnv /\ PipPath(h, used) \in f.exec
        THEN Descriptor(PipPath(h, used), <<>>, <<>>)
        ELSE ModuleForm(h)

getPipCommand_NoFallback(h, f, env) ==
    IF env # NoEnv
    THEN IF PipPath(h, env) \in f.exec THEN Descriptor(PipPath(h, env), <<>>, <<>>)
         ELSE NoDescriptor(<<>>)
    ELSE ModuleForm(h)

getPipCommand(h, f, env) ==
    IF env # NoEnv /\ PipPath(h, env) \in f.exec
    THEN Descriptor(PipPath(h, env), <<>>, <<>>)
    ELSE ModuleForm(h)

----------------------------------------------------------------------------
(* The Command Runner *)

\* what a spawned process does: fails to spawn, or closes with a code and a stdout
SpawnFailure(empty) == [spawned |-> FALSE, code |-> 1, stdout |-> empty]
Exit(code, stdout) == [spawned |-> TRUE, code |-> code, stdout |-> stdout]

\* executeCommand resolves with the stdout iff the process closes with code 0
Resolves(o) == o.spawned /\ o.code = 0

\* the command line executeCommand spawns for a descriptor
CommandLine(desc, argv) == [command |-> desc.command, args |-> desc.args \o argv]

\* what becomes of the command line given to cp.spawn with { shell: true }: the
\* shell cannot be started (noShell), the shell finds no such executable
\* (notFound) or may not execute it (denied), or the program runs and exits
Launches == {"runs", "notFound", "denied", "noShell"}
ExitCodes == {0, 1, 127}
StdoutTexts == {"", "Successfully installed"}
StderrTexts == {"", "not found"}

Process(launch, code, stdout, stderr) ==
    [launch |-> launch, code |-> code, stdout |-> stdout, stderr |-> stderr]
NoProcess == Process("none", 0, "", "")

Processes ==
    {Process("runs", c, o, e) : c \in ExitCodes, o \in StdoutTexts, e \in StderrTexts}
        \cup {Process(l, 0, "", "") : l \in Launches \ {"runs"}}

\* the 'close' event of the spawned shell: the program's exit, or the shell's own
\* 127 (not found) or 126 (cannot execute) with its message on stderr
ShellClose(p) ==
    IF p.launch = "notFound" THEN [code |-> 127, stdout |-> "", stderr |-> "not found"]
    ELSE IF p.launch = "denied" THEN [code |-> 126, stdout |-> "", stderr |-> "Permission denied"]
    ELSE [code |-> p.code, stdout |-> p.stdout, stderr |-> p.stderr]

\* new Error(`Command failed with exit code ${code}: ${stderr}`)
ExecError(code, stderr) ==
    [name |-> "Error", syscode |-> "", text |-> "Command failed with exit code",
     exit |-> code, stderr |-> stderr]
\* the error of the 'error' event
SystemError(syscode) ==
    [name |-> "Error", syscode |-> syscode, text |-> "spawn", exit |-> 0, stderr |-> ""]
NoError == [name |-> "", syscode |-> "", text |-> "", exit |-> 0, stderr |-> ""]

NoSettlement == [resolved |-> FALSE, value |-> "", error |-> NoError]

\* how the promise of executeCommand settles
executeCommand(p) ==
    IF p.launch = "noShell"
    THEN [resolved |-> FALSE, value |-> "", error |-> SystemError("ENOENT")]
    ELSE LET c == ShellClose(p)
         IN  IF c.code = 0 THEN [resolved |-> TRUE, value |-> c.stdout, error |-> NoError]
             ELSE [resolved |-> FALSE, value |-> "", error |-> ExecError(c.code, c.stderr)]

\* the process as an outcome: a spawn failure, or an exit with a code and a stdout
Outcome(p) ==
    IF p.launch = "noShell" THEN SpawnFailure("")
    ELSE Exit(ShellClose(p).code, ShellClose(p).stdout)

----------------------------------------------------------------------------
(* Structured output *)

\* a stdout that JSON.parse accepts as an array, and one it does not
JsonArray(value) == [json |-> TRUE, value |-> value]
NotJson == [json |-> FALSE, value |-> <<>>]

InstalledEntries == [name : PkgNames, version : Versions]
OutdatedEntries == [name : PkgNames, version : {"2.28.0"}, latest_version : Versions]

SeqsUpTo(S, n) == UNION {[1..k -> S] : k \in 0..n}

InstalledLists == SeqsUpTo(InstalledEntries, MaxPkgs)
OutdatedLists == SeqsUpTo(OutdatedEntries, MaxOutdated)

\* the lines of a 'pip show' stdout
NameLine == [key |-> "Name", value |-> "x"]
SummaryLine(text) == [key |-> "Summary", value |-> text]
ShowTexts == {<<NameLine>>} \cup {<<NameLine, SummaryLine(t)>> : t \in Summaries}

InstalledOutcomes ==
    {SpawnFailure(NotJson), Exit(1, NotJson), Exit(0, NotJson)}
        \cup {Exit(0, JsonArray(l)) : l \in InstalledLists}
OutdatedOutcomes ==
    {SpawnFailure(NotJson), Exit(1, NotJson), Exit(0, NotJson)}
        \cup {Exit(0, JsonArray(l)) : l \in OutdatedLists}
ShowOutcomes == {Exit(1, <<>>)} \cup {Exit(0, t) : t \in ShowTexts}

----------------------------------------------------------------------------
(* Package reconciliation *)

Undefined == "undefined"

\* JavaScript's !!latest
Truthy(s) == s # Undefined /\ s # ""

RECURSIVE BuildMap(_, _, _)
\* outdatedPackages.forEach(pkg => outdatedMap.set(pkg.name, pkg.latest_version))
BuildMap(list, i, m) ==
    IF i > Len(list) THEN m
    ELSE BuildMap(list, i + 1,
             [n \in DOMAIN m \cup {list[i].name} |->
                 IF n = list[i].name THEN list[i].latest_version ELSE m[n]])

EmptyMap == [n \in {} |-> Undefined]

OutdatedMap(list) == BuildMap(list, 1, EmptyMap)

\* outdatedMap.get(name)
MapGet(m, name) == IF name \in DOMAIN m THEN m[name] ELSE Undefined

RECURSIVE FindSummary(_, _)
\* the first line that starts with 'Summary:', '' without one
FindSummary(lines, i) ==
    IF i > Len(lines) THEN ""
    ELSE IF lines[i].key = "Summary" THEN lines[i].value
    ELSE FindSummary(lines, i + 1)

Description(o) == IF Resolves(o) THEN FindSummary(o.stdout, 1) ELSE ""

PackageInfo_FlagAll(pkg, m, description) ==
    [name |-> pkg.name, version |-> pkg.version, latest |-> MapGet(m, pkg.name),
     hasUpdate |-> DOMAIN m # {}, description |-> description]

\* the record pushed to packages_with_details
PackageInfo(pkg, m, description) ==
    [name |-> pkg.name, version |-> pkg.version, latest |-> MapGet(m, pkg.name),
     hasUpdate |-> Truthy(MapGet(m, pkg.name)), description |-> description]

\* a.name.localeCompare(b.name) < 0
NameRank(n) == IF n = "flask" THEN 1 ELSE IF n = "requests" THEN 2 ELSE 3

\* the comparator of the provider's sort: a before b
PkgBefore(a, b) ==
    IF a.hasUpdate /\ ~b.hasUpdate THEN TRUE
    ELSE IF ~a.hasUpdate /\ b.hasUpdate THEN FALSE
    ELSE NameRank(a.name) < NameRank(b.name)

RECURSIVE Insert(_, _, _)
Insert(sorted, x, i) ==
    IF i > Len(sorted) THEN Append(sorted, x)
    ELSE IF PkgBefore(x, sorted[i])
         THEN SubSeq(sorted, 1, i - 1) \o <<x>> \o SubSeq(sorted, i, Len(sorted))
         ELSE Insert(sorted, x, i + 1)

RECURSIVE SortFrom(_, _, _)
SortFrom(list, i, sorted) ==
    IF i > Len(list) THEN sorted ELSE SortFrom(list, i + 1, Insert(sorted, list[i], 1))

\* this._packages.sort(...): a stable sort
SortPackages(list) == SortFrom(list, 1, <<>>)

----------------------------------------------------------------------------
(* Calls into PythonExecutor *)

\* the call slots; calls meet only in what they assign to the provider's list
OpIds == {1}

NoOutcome == [spawned |-> FALSE, code |-> 0, stdout |-> NotJson]

\* a call slot: kind is the method, pc the await it is suspended at
IdleOp ==
    [kind |-> "idle", pc |-> "idle",
     env |-> NoEnv,               \* _currentEnv as getPipCommand read it
     overtaken |-> FALSE,         \* history: _currentEnv has changed since the call began
     desc |-> NoDescriptor(<<>>), \* { command, args, envPath } of getPipCommand
     located |-> FALSE,           \* getPipCommand was called
     names |-> <<>>,              \* packageNames / packageName
     item |-> "",                 \* the command's tree item, by name ('' without one)
     typed |-> "",                \* what the user typed into the command's input box
     idx |-> 0,                   \* the loop position
     packagesData |-> <<>>, outdatedMap |-> EmptyMap, details |-> <<>>,
     success |-> <<>>, failed |-> <<>>,
     installedOut |-> NoOutcome, outdatedOut |-> NoOutcome,
     showOuts |-> <<>>, upgradeOuts |-> <<>>,
     spawned |-> <<>>,            \* the command lines given to executeCommand, in order
     caught |-> FALSE,            \* the method's outer catch ran
     threw |-> FALSE,             \* the returned promise rejected
     result |-> <<>>,             \* the list getInstalledPackages returns
     succeeded |-> FALSE,         \* the boolean install/uninstall/update return
     message |-> "",              \* the error message createVirtualEnvironment logs
     process |-> NoProcess,       \* what became of the spawned command line
     settled |-> NoSettlement,    \* how executeCommand's promise settled
     returned |-> FALSE]

Spawn(op, argv) == Append(op.spawned, CommandLine(op.desc, argv))

\* the command line executeSystemCommand runs for an entry of a resolution's trace
SystemCommand(h, e) ==
    IF e.kind = "which"
    THEN [command |-> IF h.win32 THEN <<"where">> ELSE <<"which">>, args |-> e.arg]
    ELSE [command |-> e.arg, args |-> <<"--version">>]

\* cp.exec's callback has (error && stderr)
SystemRejected(h, e) ==
    IF e.kind = "which" THEN h.which[e.arg[1]].rejected
    ELSE VersionProbe(h, e.arg).rejected

RECURSIVE SystemLog(_, _, _)
\* the lines executeSystemCommand appends for a trace: 'Error executing command:
\* <command>' for a rejected command, nothing for one that resolves
SystemLog(h, trace, k) ==
    IF k > Len(trace) THEN <<>>
    ELSE IF SystemRejected(h, trace[k])
         THEN <<[text |-> "Error executing command", line |-> SystemCommand(h, trace[k])]>>
                  \o SystemLog(h, trace, k + 1)
         ELSE SystemLog(h, trace, k + 1)

\* the lines executeCommand appends: 'Executing: <cmdPath> <args>' per spawn
ExecLog(spawned) ==
    [k \in DOMAIN spawned |-> [text |-> "Executing", line |-> spawned[k]]]

\* the command lines a call has appended to the output channel, in order
OutputLog(h, op) == SystemLog(h, op.desc.trace, 1) \o ExecLog(op.spawned)

\* getInstalledPackages begins: getPipCommand reads _currentEnv
ListStart(i) ==
    /\ ops[i].kind = "idle"
    /\ ops' = [ops EXCEPT ![i] =
                 [IdleOp EXCEPT !.kind = "list", !.pc = "located", !.env = currentEnv,
                                !.located = TRUE,
                                !.desc = getPipCommand(host, fs, currentEnv)]]
    /\ UNCHANGED <<host, panel, fs, currentEnv, environments, packages, scan, prevEnv>>

\* getInstalledPackages returns list; caught: through its catch block
ListReturn(op, list, caught) ==
    [op EXCEPT !.pc = "done", !.result = list, !.caught = caught, !.returned = TRUE]

\* the provider's getChildren continues after its await
ProviderHolds(op) ==
    IF op.threw THEN packages ELSE SortPackages(op.result)

\* getPipCommand threw: no interpreter
ListNotLocated(i) ==
    /\ ops[i].kind = "list" /\ ops[i].pc = "located" /\ ~ops[i].desc.ok
    /\ LET op == ListReturn(ops[i], <<>>, TRUE)
       IN  /\ ops' = [ops EXCEPT ![i] = op]
           /\ packages' = ProviderHolds(op)
    /\ UNCHANGED <<host, panel, fs, currentEnv, environments, scan, prevEnv>>

\* pip list --format=json closes with outcome o
ListInstalled(i, o) ==
    /\ ops[i].kind = "list" /\ ops[i].pc = "located" /\ ops[i].desc.ok
    /\ LET run == [ops[i] EXCEPT !.spawned = Spawn(ops[i], <<"list", "--format=json">>),
                                 !.installedOut = o]
       IN  IF Resolves(o) /\ o.stdout.json
           THEN /\ ops' = [ops EXCEPT ![i] =
                             [run EXCEPT !.pc = "outdated", !.packagesData = o.stdout.value]]
                /\ UNCHANGED packages
           ELSE LET op == ListReturn(run, <<>>, TRUE)
                IN  /\ ops' = [ops EXCEPT ![i] = op]
                    /\ packages' = ProviderHolds(op)
    /\ UNCHANGED <<host, panel, fs, currentEnv, environments, scan, prevEnv>>

OutdatedOutput_Propagate(o) == o.stdout

\* executeCommand(...).catch(() => '[]')
OutdatedOutput(o) == IF Resolves(o) THEN o.stdout ELSE JsonArray(<<>>)

\* pip list --outdated --format=json closes with outcome o
ListOutdated(i, o) ==
    /\ ops[i].kind = "list" /\ ops[i].pc = "outdated"
    /\ LET run == [ops[i] EXCEPT !.spawned = Spawn(ops[i], <<"list", "--outdated", "--format=json">>),
                                 !.outdatedOut = o]
           outdatedOutput == OutdatedOutput(o)
       IN  IF ~outdatedOutput.json
           THEN LET op == ListReturn(run, <<>>, TRUE)
                IN  /\ ops' = [ops EXCEPT ![i] = op]
                    /\ packages' = ProviderHolds(op)
           ELSE IF run.packagesData = <<>>
           THEN LET op == ListReturn(run, <<>>, FALSE)
                IN  /\ ops' = [ops EXCEPT ![i] = op]
                    /\ packages' = ProviderHolds(op)
           ELSE /\ ops' = [ops EXCEPT ![i] =
                             [run EXCEPT !.pc = "show", !.idx = 1,
                                         !.outdatedMap = OutdatedMap(outdatedOutput.value)]]
                /\ UNCHANGED packages
    /\ UNCHANGED <<host, panel, fs, currentEnv, environments, scan, prevEnv>>

ListShow_AbortOnFailure(i, o) ==
    /\ ops[i].kind = "list" /\ ops[i].pc = "show"
    /\ LET pkg == ops[i].packagesData[ops[i].idx]
           run == [ops[i] EXCEPT !.spawned = Spawn(ops[i], <<"show", pkg.name>>),
                                 !.showOuts = Append(ops[i].showOuts, o),
                                 !.details = Append(ops[i].details,
                                     PackageInfo(pkg, ops[i].outdatedMap, Description(o)))]
       IN  IF ~Resolves(o)
           THEN LET op == ListReturn(run, <<>>, TRUE)
                IN  /\ ops' = [ops EXCEPT ![i] = op]
                    /\ packages' = ProviderHolds(op)
           ELSE IF run.idx < Len(run.packagesData)
           THEN /\ ops' = [ops EXCEPT ![i] = [run EXCEPT !.idx = run.idx + 1]]
                /\ UNCHANGED packages
           ELSE LET op == ListReturn(run, run.details, FALSE)
                IN  /\ ops' = [ops EXCEPT ![i] = op]
                    /\ packages' = ProviderHolds(op)
    /\ UNCHANGED <<host, panel, fs, currentEnv, environments, scan, prevEnv>>

\* pip show <name> closes with outcome o
ListShow(i, o) ==
    /\ ops[i].kind = "list" /\ ops[i].pc = "show"
    /\ LET pkg == ops[i].packagesData[ops[i].idx]
           run == [ops[i] EXCEPT !.spawned = Spawn(ops[i], <<"show", pkg.name>>),
                                 !.showOuts = Append(ops[i].showOuts, o),
                                 !.details = Append(ops[i].details,
                                     PackageInfo(pkg, ops[i].outdatedMap, Description(o)))]
       IN  IF run.idx < Len(run.packagesData)
           THEN /\ ops' = [ops EXCEPT ![i] = [run EXCEPT !.idx = run.idx + 1]]
                /\ UNCHANGED packages
           ELSE LET op == ListReturn(run, run.details, FALSE)
                IN  /\ ops' = [ops EXCEPT ![i] = op]
                    /\ packages' = ProviderHolds(op)
    /\ UNCHANGED <<host, panel, fs, currentEnv, environments, scan, prevEnv>>

\* the caller is done with the call's result
Retire(i) ==
    /\ ops[i].pc = "done"
    /\ ops' = [ops EXCEPT ![i] = IdleOp]
    /\ UNCHANGED <<host, panel, fs, currentEnv, environments, packages, scan, prevEnv>>

----------------------------------------------------------------------------
(* Batch update *)

UpgradeOutcomes == {SpawnFailure(""), Exit(1, ""), Exit(0, "")}

NameLists == SeqsUpTo(PkgNames, MaxNames)

Elements(list) == {list[k] : k \in DOMAIN list}

RECURSIVE Filter(_, _, _)
\* packageNames.filter(pkg => !success.includes(pkg))
Filter(list, excluded, i) ==
    IF i > Len(list) THEN <<>>
    ELSE IF list[i] \in excluded THEN Filter(list, excluded, i + 1)
    ELSE <<list[i]>> \o Filter(list, excluded, i + 1)

UpdReturn(op, success, failed, caught) ==
    [op EXCEPT !.pc = "done", !.success = success, !.failed = failed,
               !.caught = caught, !.returned = TRUE]

UpdStart_NoEmptyCheck(i, names) ==
    /\ ops[i].kind = "idle"
    /\ ops' = [ops EXCEPT ![i] =
                 [IdleOp EXCEPT !.kind = "updateMany", !.pc = "located",
                                !.names = names, !.env = currentEnv, !.located = TRUE,
                                !.desc = getPipCommand(host, fs, currentEnv)]]
    /\ UNCHANGED <<host, panel, fs, currentEnv, environments, packages, scan, prevEnv>>

\* updatePackages(names) begins
UpdStart(i, names) ==
    /\ ops[i].kind = "idle"
    /\ IF Len(names) = 0
       THEN ops' = [ops EXCEPT ![i] =
                      UpdReturn([IdleOp EXCEPT !.kind = "updateMany"], <<>>, <<>>, FALSE)]
       ELSE ops' = [ops EXCEPT ![i] =
                      [IdleOp EXCEPT !.kind = "updateMany", !.pc = "located",
                                     !.names = names, !.env = currentEnv, !.located = TRUE,
                                     !.desc = getPipCommand(host, fs, currentEnv)]]
    /\ UNCHANGED <<host, panel, fs, currentEnv, environments, packages, scan, prevEnv>>

UpdNotLocated_Throw(i) ==
    /\ ops[i].kind = "updateMany" /\ ops[i].pc = "located" /\ ~ops[i].desc.ok
    /\ ops' = [ops EXCEPT ![i] = [ops[i] EXCEPT !.pc = "done", !.threw = TRUE]]
    /\ UNCHANGED <<host, panel, fs, currentEnv, environments, packages, scan, prevEnv>>

\* getPipCommand threw: the outer catch
UpdNotLocated(i) ==
    /\ ops[i].kind = "updateMany" /\ ops[i].pc = "located" /\ ~ops[i].desc.ok
    /\ ops' = [ops EXCEPT ![i] =
                 UpdReturn(ops[i], ops[i].success,
                           ops[i].failed \o Filter(ops[i].names, Elements(ops[i].success), 1),
                           TRUE)]
    /\ UNCHANGED <<host, panel, fs, currentEnv, environments, packages, scan, prevEnv>>

UpdCombined_AlwaysEach(i, o) ==
    /\ ops[i].kind = "updateMany" /\ ops[i].pc = "located" /\ ops[i].desc.ok
    /\ ops' = [ops EXCEPT ![i] =
                 [ops[i] EXCEPT !.spawned = Spawn(ops[i], <<"install", "--upgrade">> \o ops[i].names),
                                !.upgradeOuts = <<o>>, !.pc = "each", !.idx = 1]]
    /\ UNCHANGED <<host, panel, fs, currentEnv, environments, packages, scan, prevEnv>>

\* pip install --upgrade <all names> closes with outcome o
UpdCombined(i, o) ==
    /\ ops[i].kind = "updateMany" /\ ops[i].pc = "located" /\ ops[i].desc.ok
    /\ LET run == [ops[i] EXCEPT !.spawned = Spawn(ops[i], <<"install", "--upgrade">> \o ops[i].names),
                                 !.upgradeOuts = <<o>>]
       IN  IF Resolves(o)
           THEN ops' = [ops EXCEPT ![i] = UpdReturn(run, run.names, <<>>, FALSE)]
           ELSE ops' = [ops EXCEPT ![i] = [run EXCEPT !.pc = "each", !.idx = 1]]
    /\ UNCHANGED <<host, panel, fs, currentEnv, environments, packages, scan, prevEnv>>

UpdEach_AbortOnFailure(i, o) ==
    /\ ops[i].kind = "updateMany" /\ ops[i].pc = "each"
    /\ LET pkgName == ops[i].names[ops[i].idx]
           run == [ops[i] EXCEPT !.spawned = Spawn(ops[i], <<"install", "--upgrade", pkgName>>),
                                 !.upgradeOuts = Append(ops[i].upgradeOuts, o),
                                 !.success = IF Resolves(o) THEN Append(ops[i].success, pkgName)
                                             ELSE ops[i].success,
                                 !.failed = IF Resolves(o) THEN ops[i].failed
                                            ELSE Append(ops[i].failed, pkgName)]
       IN  IF Resolves(o) /\ run.idx < Len(run.names)
           THEN ops' = [ops EXCEPT ![i] = [run EXCEPT !.idx = run.idx + 1]]
           ELSE ops' = [ops EXCEPT ![i] = UpdReturn(run, run.success, run.failed, FALSE)]
    /\ UNCHANGED <<host, panel, fs, currentEnv, environments, packages, scan, prevEnv>>

UpdEach_RetryFailed(i, o) ==
    /\ ops[i].kind = "updateMany" /\ ops[i].pc = "each"
    /\ LET pkgName == ops[i].names[ops[i].idx]
           again == ~Resolves(o) /\ Len(ops[i].spawned) < 2 * Len(ops[i].names)
           run == [ops[i] EXCEPT !.spawned = Spawn(ops[i], <<"install", "--upgrade", pkgName>>),
                                 !.upgradeOuts = Append(ops[i].upgradeOuts, o),
                                 !.success = IF Resolves(o) THEN Append(ops[i].success, pkgName)
                                             ELSE ops[i].success,
                                 !.failed = IF Resolves(o) \/ again THEN ops[i].failed
                                            ELSE Append(ops[i].failed, pkgName)]
       IN  IF again
           THEN ops' = [ops EXCEPT ![i] = run]
           ELSE IF run.idx < Len(run.names)
           THEN ops' = [ops EXCEPT ![i] = [run EXCEPT !.idx = run.idx + 1]]
           ELSE ops' = [ops EXCEPT ![i] = UpdReturn(run, run.success, run.failed, FALSE)]
    /\ UNCHANGED <<host, panel, fs, currentEnv, environments, packages, scan, prevEnv>>

UpdEach_Relocate(i, o) ==
    /\ ops[i].kind = "updateMany" /\ ops[i].pc = "each"
    /\ LET pkgName == ops[i].names[ops[i].idx]
           now == [ops[i] EXCEPT !.desc = getPipCommand(host, fs, currentEnv)]
           run == [ops[i] EXCEPT !.spawned = Spawn(now, <<"install", "--upgrade", pkgName>>),
                                 !.upgradeOuts = Append(ops[i].upgradeOuts, o),
                                 !.success = IF Resolves(o) THEN Append(ops[i].success, pkgName)
                                             ELSE ops[i].success,
                                 !.failed = IF Resolves(o) THEN ops[i].failed
                                            ELSE Append(ops[i].failed, pkgName)]
       IN  IF run.idx < Len(run.names)
           THEN ops' = [ops EXCEPT ![i] = [run EXCEPT !.idx = run.idx + 1]]
           ELSE ops' = [ops EXCEPT ![i] = UpdReturn(run, run.success, run.failed, FALSE)]
    /\ UNCHANGED <<host, panel, fs, currentEnv, environments, packages, scan, prevEnv>>

\* pip install --upgrade <one name> closes with outcome o
UpdEach(i, o) ==
    /\ ops[i].kind = "updateMany" /\ ops[i].pc = "each"
    /\ LET pkgName == ops[i].names[ops[i].idx]
           run == [ops[i] EXCEPT !.spawned = Spawn(ops[i], <<"install", "--upgrade", pkgName>>),
                                 !.upgradeOuts = Append(ops[i].upgradeOuts, o),
                                 !.success = IF Resolves(o) THEN Append(ops[i].success, pkgName)
                                             ELSE ops[i].success,
                                 !.failed = IF Resolves(o) THEN ops[i].failed
                                            ELSE Append(ops[i].failed, pkgName)]
       IN  IF run.idx < Len(run.names)
           THEN ops' = [ops EXCEPT ![i] = [run EXCEPT !.idx = run.idx + 1]]
           ELSE ops' = [ops EXCEPT ![i] = UpdReturn(run, run.success, run.failed, FALSE)]
    /\ UNCHANGED <<host, panel, fs, currentEnv, environments, packages, scan, prevEnv>>

----------------------------------------------------------------------------
(* install, uninstall, update of one package *)

SingleKinds == {"install", "uninstall", "update"}

\* the arguments after the descriptor's prefix, for the package named by names
SingleArgv(kind, names) ==
    IF kind = "install" THEN <<"install">> \o names
    ELSE IF kind = "uninstall" THEN <<"uninstall", "-y">> \o names
    ELSE <<"install", "--upgrade">> \o names

\* installPackage / uninstallPackage / updatePackage begins
SingleStart(i, kind, names) ==
    /\ ops[i].kind = "idle"
    /\ ops' = [ops EXCEPT ![i] =
                 [IdleOp EXCEPT !.kind = kind, !.pc = "located", !.names = names,
                                !.env = currentEnv, !.located = TRUE,
                                !.desc = getPipCommand(host, fs, currentEnv)]]
    /\ UNCHANGED <<host, panel, fs, currentEnv, environments, packages, scan, prevEnv>>

\* getPipCommand threw: return false
SingleNotLocated(i) ==
    /\ ops[i].kind \in SingleKinds /\ ops[i].pc = "located" /\ ~ops[i].desc.ok
    /\ ops' = [ops EXCEPT ![i] =
                 [ops[i] EXCEPT !.pc = "done", !.caught = TRUE, !.succeeded = FALSE,
                                !.returned = TRUE]]
    /\ UNCHANGED <<host, panel, fs, currentEnv, environments, packages, scan, prevEnv>>

\* the pip process closes with outcome o
SingleExec(i, o) ==
    /\ ops[i].kind \in SingleKinds /\ ops[i].pc = "located" /\ ops[i].desc.ok
    /\ ops' = [ops EXCEPT ![i] =
                 [ops[i] EXCEPT !.pc = "done",
                                !.spawned = Spawn(ops[i], SingleArgv(ops[i].kind, ops[i].names)),
                                !.upgradeOuts = <<o>>,
                                !.caught = ~Resolves(o), !.succeeded = Resolves(o),
                                !.returned = TRUE]]
    /\ UNCHANGED <<host, panel, fs, currentEnv, environments, packages, scan, prevEnv>>

\* the same step with the process in detail: the spawned command line becomes
\* process p and executeCommand's promise settles
SingleRun(i, p) ==
    /\ ops[i].kind \in SingleKinds /\ ops[i].pc = "located" /\ ops[i].desc.ok
    /\ LET run == executeCommand(p)
       IN  ops' = [ops EXCEPT ![i] =
                     [ops[i] EXCEPT !.pc = "done",
                                    !.spawned = Spawn(ops[i], SingleArgv(ops[i].kind, ops[i].names)),
                                    !.upgradeOuts = <<Outcome(p)>>,
                                    !.process = p, !.settled = run,
                                    !.caught = ~run.resolved, !.succeeded = run.resolved,
                                    !.returned = TRUE]]
    /\ UNCHANGED <<host, panel, fs, currentEnv, environments, packages, scan, prevEnv>>

----------------------------------------------------------------------------
(* Environment enumeration and selection *)

EnvFolders == <<".venv", "venv", "env", ".env", ".virtualenv", "virtualenv">>

EnvInfo(name, path, isActive) == [name |-> name, path |-> path, isActive |-> isActive]

\* a.name.localeCompare(b.name) < 0
EnvRank(n) ==
    CASE n = ".env" -> 1 [] n = ".venv" -> 2 [] n = ".virtualenv" -> 3
      [] n = "env" -> 4 [] n = "venv" -> 5 [] n = "virtualenv" -> 6 [] OTHER -> 7

\* the comparator of the environment provider's sort: a before b
EnvBefore(a, b) ==
    IF a.isActive /\ ~b.isActive THEN TRUE
    ELSE IF ~a.isActive /\ b.isActive THEN FALSE
    ELSE EnvRank(a.name) < EnvRank(b.name)

RECURSIVE InsertEnv(_, _, _)
InsertEnv(sorted, x, i) ==
    IF i > Len(sorted) THEN Append(sorted, x)
    ELSE IF EnvBefore(x, sorted[i])
         THEN SubSeq(sorted, 1, i - 1) \o <<x>> \o SubSeq(sorted, i, Len(sorted))
         ELSE InsertEnv(sorted, x, i + 1)

RECURSIVE SortEnvsFrom(_, _, _)
SortEnvsFrom(list, i, sorted) ==
    IF i > Len(list) THEN sorted ELSE SortEnvsFrom(list, i + 1, InsertEnv(sorted, list[i], 1))

\* this._environments.sort(...): a stable sort
SortEnvironments(list) == SortEnvsFrom(list, 1, <<>>)

IdleScan == [pc |-> "idle", pos |-> 0, found |-> <<>>]

\* the candidates of the two loops of getVirtualEnvironments, in order
CandidateCount(h) == Len(h.workspaceFolders) * Len(EnvFolders)
CandidateFolder(h, k) == h.workspaceFolders[((k - 1) \div Len(EnvFolders)) + 1]
CandidateName(k) == EnvFolders[((k - 1) % Len(EnvFolders)) + 1]

IsEnvironment_DirOnly(h, f, envPath) == envPath \in f.dirs

\* stats.isDirectory() and pythonExeStats.isFile()
IsEnvironment(h, f, envPath) ==
    envPath \in f.dirs /\ (envPath \o PythonExe(h)) \in f.files

\* the environment provider's getChildren begins: getVirtualEnvironments
ScanStart ==
    /\ scan.pc = "idle"
    /\ IF CandidateCount(host) = 0
       THEN /\ environments' = <<>>
            /\ UNCHANGED scan
       ELSE /\ scan' = [pc |-> "scanning", pos |-> 1, found |-> <<>>]
            /\ UNCHANGED environments
    /\ UNCHANGED <<host, panel, fs, currentEnv, packages, ops, prevEnv>>

\* one candidate is examined; after the last the provider holds the sorted list
ScanStep ==
    /\ scan.pc = "scanning"
    /\ LET envName == CandidateName(scan.pos)
           envPath == CandidateFolder(host, scan.pos) \o <<envName>>
           found == IF IsEnvironment(host, fs, envPath)
                    THEN Append(scan.found, EnvInfo(envName, envPath, currentEnv.path = envPath))
                    ELSE scan.found
       IN  IF scan.pos < CandidateCount(host)
           THEN /\ scan' = [scan EXCEPT !.pos = scan.pos + 1, !.found = found]
                /\ UNCHANGED environments
           ELSE /\ scan' = IdleScan
                /\ environments' = SortEnvironments(found)
    /\ UNCHANGED <<host, panel, fs, currentEnv, packages, ops, prevEnv>>

RECURSIVE FindByName(_, _, _)
\* this._environments.find(e => e.name === envName): its index, 0 without one
FindByName(list, envName, i) ==
    IF i > Len(list) THEN 0
    ELSE IF list[i].name = envName THEN i
    ELSE FindByName(list, envName, i + 1)

\* the history kept beside an assignment to _currentEnv: the calls that have read
\* _currentEnv are overtaken when it changes
EnvChanged ==
    /\ prevEnv' = IF currentEnv' # currentEnv THEN currentEnv ELSE prevEnv
    /\ ops' = [i \in DOMAIN ops |->
                 IF currentEnv' # currentEnv /\ ops[i].located
                 THEN [ops[i] EXCEPT !.overtaken = TRUE] ELSE ops[i]]

setActive_Toggle(envs, cur, envName) ==
    LET k == FindByName(envs, envName, 1)
    IN  [environments |-> [j \in DOMAIN envs |->
                              [envs[j] EXCEPT !.isActive = (j = k /\ ~envs[j].isActive)]],
         currentEnv |-> IF k = 0 THEN cur
                        ELSE [name |-> envs[k].name, path |-> envs[k].path]]

setActive_FlagOnly(envs, cur, envName) ==
    LET k == FindByName(envs, envName, 1)
    IN  [environments |-> [j \in DOMAIN envs |-> [envs[j] EXCEPT !.isActive = (j = k)]],
         currentEnv |-> cur]

\* what setActiveEnvironment(envName) leaves in _environments and _currentEnv
setActive(envs, cur, envName) ==
    LET k == FindByName(envs, envName, 1)
    IN  [environments |-> [j \in DOMAIN envs |-> [envs[j] EXCEPT !.isActive = (j = k)]],
         currentEnv |-> IF k = 0 THEN cur
                        ELSE [name |-> envs[k].name, path |-> envs[k].path]]

\* setActiveEnvironment(envName)
setActiveEnvironment(envName) ==
    LET r == setActive(environments, currentEnv, envName)
    IN  /\ environments' = r.environments
        /\ currentEnv' = r.currentEnv
        /\ EnvChanged

\* switchEnvironment(envItem) for the k-th tree item
SwitchEnvironment(k) ==
    /\ k \in DOMAIN environments
    /\ ~environments[k].isActive
    /\ setActiveEnvironment(environments[k].name)
    /\ UNCHANGED <<host, panel, fs, packages, scan>>

\* switchEnvironment() without a tree item
SwitchNoItem ==
    /\ setActiveEnvironment("")
    /\ UNCHANGED <<host, panel, fs, packages, scan>>

----------------------------------------------------------------------------
(* Environment creation *)

\* what a successful 'python -m venv <envPath>' leaves on the file system
VenvCreated(h, f, envPath) ==
    LET made == {envPath \o PythonExe(h), envPath \o <<BinDir(h), PipCommand(h)>>}
    IN  [dirs |-> f.dirs \cup {envPath}, files |-> f.files \cup made,
         exec |-> f.exec \cup made]

\* createVirtualEnvironment returns undefined through its catch block
CreateFails(op, message) ==
    [op EXCEPT !.pc = "done", !.caught = TRUE, !.returned = TRUE,
               !.result = <<>>, !.message = message]

\* createEnvironment: the name is entered, createVirtualEnvironment resolves the interpreter
CreateStart(i, name) ==
    /\ ops[i].kind = "idle"
    /\ LET r == getPythonPath(host)
       IN  ops' = [ops EXCEPT ![i] =
                     [IdleOp EXCEPT !.kind = "create", !.pc = "resolved", !.names = <<name>>,
                                    !.desc = IF r.ok THEN Descriptor(r.path, <<>>, r.trace)
                                             ELSE NoDescriptor(r.trace)]]
    /\ UNCHANGED <<host, panel, fs, currentEnv, environments, packages, scan, prevEnv>>

\* getPythonPath threw
CreateNotResolved(i) ==
    /\ ops[i].kind = "create" /\ ops[i].pc = "resolved" /\ ~ops[i].desc.ok
    /\ ops' = [ops EXCEPT ![i] = CreateFails(ops[i], "No Python installation found")]
    /\ UNCHANGED <<host, panel, fs, currentEnv, environments, packages, scan, prevEnv>>

\* no workspace folder is open
CreateNoWorkspace(i) ==
    /\ ops[i].kind = "create" /\ ops[i].pc = "resolved" /\ ops[i].desc.ok
    /\ Len(host.workspaceFolders) = 0
    /\ ops' = [ops EXCEPT ![i] = CreateFails(ops[i], "No workspace folder is open")]
    /\ UNCHANGED <<host, panel, fs, currentEnv, environments, packages, scan, prevEnv>>

CreateExec_IgnoreExit(i, o) ==
    /\ ops[i].kind = "create" /\ ops[i].pc = "resolved" /\ ops[i].desc.ok
    /\ Len(host.workspaceFolders) > 0
    /\ LET name == ops[i].names[1]
           envPath == host.workspaceFolders[1] \o <<name>>
           run == [ops[i] EXCEPT !.spawned = Spawn(ops[i], <<"-m", "venv">> \o envPath),
                                 !.upgradeOuts = <<o>>]
       IN  /\ ops' = [ops EXCEPT ![i] =
                        [run EXCEPT !.pc = "asked", !.returned = TRUE,
                                    !.result = <<EnvInfo(name, envPath, FALSE)>>]]
           /\ fs' = IF Resolves(o) THEN VenvCreated(host, fs, envPath) ELSE fs
    /\ UNCHANGED <<host, panel, currentEnv, environments, packages, scan, prevEnv>>

CreateExec_Activates(i, o) ==
    /\ ops[i].kind = "create" /\ ops[i].pc = "resolved" /\ ops[i].desc.ok
    /\ Len(host.workspaceFolders) > 0
    /\ LET name == ops[i].names[1]
           envPath == host.workspaceFolders[1] \o <<name>>
           run == [ops[i] EXCEPT !.spawned = Spawn(ops[i], <<"-m", "venv">> \o envPath),
                                 !.upgradeOuts = <<o>>]
       IN  IF Resolves(o)
           THEN /\ ops' = [ops EXCEPT ![i] =
                             [run EXCEPT !.pc = "asked", !.returned = TRUE,
                                         !.result = <<EnvInfo(name, envPath, FALSE)>>]]
                /\ fs' = VenvCreated(host, fs, envPath)
                /\ currentEnv' = [name |-> name, path |-> envPath]
           ELSE /\ ops' = [ops EXCEPT ![i] = CreateFails(run, "Command failed")]
                /\ UNCHANGED <<fs, currentEnv>>
    /\ UNCHANGED <<host, panel, environments, packages, scan, prevEnv>>

\* 'python -m venv <envPath>' closes with outcome o
CreateExec(i, o) ==
    /\ ops[i].kind = "create" /\ ops[i].pc = "resolved" /\ ops[i].desc.ok
    /\ Len(host.workspaceFolders) > 0
    /\ LET name == ops[i].names[1]
           envPath == host.workspaceFolders[1] \o <<name>>
           run == [ops[i] EXCEPT !.spawned = Spawn(ops[i], <<"-m", "venv">> \o envPath),
                                 !.upgradeOuts = <<o>>]
       IN  IF Resolves(o)
           THEN /\ ops' = [ops EXCEPT ![i] =
                             [run EXCEPT !.pc = "asked", !.returned = TRUE,
                                         !.result = <<EnvInfo(name, envPath, FALSE)>>]]
                /\ fs' = VenvCreated(host, fs, envPath)
           ELSE /\ ops' = [ops EXCEPT ![i] = CreateFails(run, "Command failed")]
                /\ UNCHANGED fs
    /\ UNCHANGED <<host, panel, currentEnv, environments, packages, scan, prevEnv>>

\* 'Yes' to switching to the new environment: setActiveEnvironment(envName)
CreateSwitch(i) ==
    /\ ops[i].kind = "create" /\ ops[i].pc = "asked"
    /\ LET r == setActive(environments, currentEnv, ops[i].names[1])
       IN  /\ environments' = r.environments
           /\ currentEnv' = r.currentEnv
           /\ prevEnv' = IF currentEnv' # currentEnv THEN currentEnv ELSE prevEnv
           /\ ops' = [j \in DOMAIN ops |->
                        IF j = i THEN [ops[j] EXCEPT !.pc = "done", !.succeeded = TRUE]
                        ELSE IF currentEnv' # currentEnv /\ ops[j].located
                        THEN [ops[j] EXCEPT !.overtaken = TRUE] ELSE ops[j]]
    /\ UNCHANGED <<host, panel, fs, packages, scan>>

\* 'No', or the question is dismissed
CreateDecline(i) ==
    /\ ops[i].kind = "create" /\ ops[i].pc = "asked"
    /\ ops' = [ops EXCEPT ![i] = [ops[i] EXCEPT !.pc = "done"]]
    /\ UNCHANGED <<host, panel, fs, currentEnv, environments, packages, scan, prevEnv>>

----------------------------------------------------------------------------
(* The uninstall and update commands of the command manager *)

CommandKinds == {"uninstall", "update"}
TypedNames == {"requests", "numpy"}

\* packageProvider.getPackageByName(name): its index in the held list, 0 without one
getPackageByName(list, name) == FindByName(list, name, 1)

\* const packageName = packageItem ? packageItem.packageInfo.name : ''
CommandPackageName(item, typed) == IF item # "" THEN item ELSE ""

\* the executor's uninstallPackage / updatePackage begins for the command
CommandCalls(op) ==
    [op EXCEPT !.pc = "located", !.env = currentEnv, !.located = TRUE,
               !.desc = getPipCommand(host, fs, currentEnv)]

\* uninstallPackage(packageItem?) / updatePackage(packageItem?): with a tree item
\* (item, a held package), or without one and typed entered in the input box
\* and found in the held list; uninstall then asks for confirmation
CommandInvoked(i, kind, item, typed) ==
    /\ ops[i].kind = "idle"
    /\ IF item # "" THEN typed = "" /\ getPackageByName(packages, item) # 0
       ELSE getPackageByName(packages, typed) # 0
    /\ LET op == [IdleOp EXCEPT !.kind = kind, !.item = item, !.typed = typed,
                                !.names = <<CommandPackageName(item, typed)>>,
                                !.pc = "confirm"]
       IN  ops' = [ops EXCEPT ![i] = IF kind = "uninstall" THEN op ELSE CommandCalls(op)]
    /\ UNCHANGED <<host, panel, fs, currentEnv, environments, packages, scan, prevEnv>>

\* the answer to 'Are you sure you want to uninstall ...?'
CommandConfirmed(i, yes) ==
    /\ ops[i].kind = "uninstall" /\ ops[i].pc = "confirm"
    /\ ops' = [ops EXCEPT ![i] = IF yes THEN CommandCalls(ops[i]) ELSE IdleOp]
    /\ UNCHANGED <<host, panel, fs, currentEnv, environments, packages, scan, prevEnv>>

----------------------------------------------------------------------------
(* Hosts *)

Rejected == ExecResult(TRUE, "")
Python3Text == ExecResult(FALSE, "Python 3.11.4")
NoText == ExecResult(FALSE, "")

WhichMiss == [rejected |-> TRUE, stdout |-> <<>>]
WhichHits(lines) == [rejected |-> FALSE, stdout |-> lines]

AllCommands == {"python3", "python", "python.exe", "python3.exe", "py.exe"}
Candidates == {PySetting, PyUsr3, PyUsr, PyLocal3, PyWin}

Host(win32, ext, setting, which, version, folders) ==
    [win32 |-> win32, pythonExtension |-> ext, defaultInterpreterPath |-> setting,
     which |-> which, version |-> version, workspaceFolders |-> folders]

NoWhich == [c \in AllCommands |-> WhichMiss]
NoVersion == [p \in Candidates |-> Rejected]

\* the Python extension's setting names a working interpreter
HostSetting ==
    Host(FALSE, TRUE, PySetting,
         [NoWhich EXCEPT !["python3"] = WhichHits(<<PyUsr3>>)],
         [NoVersion EXCEPT ![PySetting] = Python3Text, ![PyUsr3] = Python3Text],
         <<Root1, Root2>>)

\* no Python extension; the first python3 on PATH is broken, python works
HostPath ==
    Host(FALSE, FALSE, PySetting,
         [NoWhich EXCEPT !["python3"] = WhichHits(<<PyLocal3, PyUsr3>>),
                         !["python"] = WhichHits(<<PyUsr>>)],
         [NoVersion EXCEPT ![PySetting] = Python3Text, ![PyUsr3] = Python3Text,
                           ![PyLocal3] = NoText, ![PyUsr] = Python3Text],
         <<Root1, Root2>>)

\* no interpreter anywhere
HostNone ==
    Host(FALSE, TRUE, None, NoWhich, NoVersion, <<Root1, Root2>>)

BasicHosts == {HostSetting, HostPath, HostNone}

\* a working configured interpreter and one workspace folder
HostOneRoot ==
    Host(FALSE, TRUE, PySetting, NoWhich, [NoVersion EXCEPT ![PySetting] = Python3Text],
         <<Root1>>)

\* a working configured interpreter and no workspace folder
HostNoFolders ==
    Host(FALSE, TRUE, PySetting, NoWhich, [NoVersion EXCEPT ![PySetting] = Python3Text], <<>>)

\* ws1/.venv and ws2/venv are environments with pip, ws1/venv one without pip,
\* ws2/env a directory without an interpreter, ws2/.env a regular file
Fs0 ==
    [dirs |-> {Root1 \o <<".venv">>, Root1 \o <<"venv">>, Root2 \o <<"venv">>, Root2 \o <<"env">>},
     files |-> {Root1 \o <<".venv", "bin", "python">>, Root1 \o <<"venv", "bin", "python">>,
                Root2 \o <<"venv", "bin", "python">>,
                Root1 \o <<".venv", "bin", "pip">>, Root2 \o <<"venv", "bin", "pip">>,
                Root2 \o <<".env">>},
     exec |-> {Root1 \o <<".venv", "bin", "python">>, Root1 \o <<"venv", "bin", "python">>,
               Root2 \o <<"venv", "bin", "python">>,
               Root1 \o <<".venv", "bin", "pip">>, Root2 \o <<"venv", "bin", "pip">>}]

EnvWithPip == [name |-> ".venv", path |-> Root1 \o <<".venv">>]
EnvWithoutPip == [name |-> "venv", path |-> Root1 \o <<"venv">>]

----------------------------------------------------------------------------
(* The dashboard panel *)

\* the cache timeout the change notes give: 15 minutes, in clock ticks of 5
CacheTimeout == 3
\* the most _updatePackageData calls of one panel in flight
MaxFetches == 2

NoJob == [kind |-> "", pc |-> "idle"]

\* currentPanel undefined
NoPanel ==
    [open |-> FALSE,
     visible |-> FALSE,        \* _panel.visible
     fetching |-> 0,           \* _updatePackageData calls awaiting getInstalledPackages
     loaded |-> FALSE,         \* an 'updatePackages' message has been posted
     shown |-> <<>>,           \* the packages of the last 'updatePackages' message
     job |-> NoJob,            \* the _installPackage / _uninstallPackage / _updatePackage in flight
     message |-> "",           \* the last notification of a finished job
     age |-> 0,                \* history: ticks since the last load, up to CacheTimeout
     stale |-> FALSE]          \* history: a job has succeeded since the last load

\* the lists getInstalledPackages returns to the panel
DashLists ==
    {<<>>,
     <<[name |-> "requests", version |-> "2.28.0", latest |-> "2.31.0",
        hasUpdate |-> TRUE, description |-> ""]>>}

DashUnchanged == UNCHANGED <<host, fs, currentEnv, environments, packages, ops, scan, prevEnv>>

\* _updatePackageData awaits getInstalledPackages
updatePackageData(p) == [p EXCEPT !.fetching = @ + 1]

\* _update: the html is set again, then _updatePackageData
update(p) == updatePackageData(p)

\* createOrShow: a new panel (its constructor calls _update), or reveal of the
\* hidden one, which fires onDidChangeViewState
createOrShow ==
    /\ panel.fetching < MaxFetches
    /\ IF panel.open
       THEN /\ ~panel.visible
            /\ panel' = update([panel EXCEPT !.visible = TRUE])
       ELSE panel' = update([NoPanel EXCEPT !.open = TRUE, !.visible = TRUE])
    /\ DashUnchanged

\* onDidChangeViewState: the panel's visibility becomes v
onDidChangeViewState(v) ==
    /\ panel.open /\ panel.visible # v
    /\ panel.fetching < MaxFetches
    /\ panel' = IF v THEN update([panel EXCEPT !.visible = TRUE])
                ELSE [panel EXCEPT !.visible = FALSE]
    /\ DashUnchanged

\* the webview's 'refreshPackages' message
refreshPackages ==
    /\ panel.open /\ panel.visible
    /\ panel.fetching < MaxFetches
    /\ panel' = updatePackageData(panel)
    /\ DashUnchanged

\* getInstalledPackages returns list to _updatePackageData: postMessage
postPackages(list) ==
    /\ panel.open /\ panel.fetching > 0
    /\ panel' = [panel EXCEPT !.fetching = @ - 1, !.loaded = TRUE, !.shown = list,
                              !.age = 0, !.stale = FALSE]
    /\ DashUnchanged

JobKinds == {"install", "uninstall", "update"}

\* the webview's 'installPackage' / 'uninstallPackage' / 'updatePackage' message
\* with a package: uninstall asks for confirmation first, the others call
\* the executor; one job at a time
jobMessage(kind) ==
    /\ panel.open /\ panel.visible /\ panel.job = NoJob
    /\ panel' = [panel EXCEPT !.job = [kind |-> kind,
                                       pc |-> IF kind = "uninstall" THEN "confirm"
                                              ELSE "running"]]
    /\ DashUnchanged

\* the answer to 'Are you sure you want to uninstall ...?'
confirmation(yes) ==
    /\ panel.open /\ panel.job.pc = "confirm"
    /\ panel' = [panel EXCEPT !.job = IF yes THEN [panel.job EXCEPT !.pc = "running"]
                                      ELSE NoJob]
    /\ DashUnchanged

\* the executor's installPackage / uninstallPackage / updatePackage returns success
jobReturns(success) ==
    /\ panel.open /\ panel.job.pc = "running"
    /\ panel.fetching < MaxFetches
    /\ panel' = IF success
                THEN updatePackageData([panel EXCEPT !.job = NoJob,
                                                     !.message = "Successfully",
                                                     !.stale = TRUE])
                ELSE [panel EXCEPT !.job = NoJob, !.message = "Failed"]
    /\ DashUnchanged

\* dispose: currentPanel = undefined; what the old panel still awaits is posted
\* to a disposed webview
dispose ==
    /\ panel.open
    /\ panel' = NoPanel
    /\ DashUnchanged

\* five minutes pass
Tick ==
    /\ panel.loaded /\ panel.age < CacheTimeout
    /\ panel' = [panel EXCEPT !.age = @ + 1]
    /\ DashUnchanged

----------------------------------------------------------------------------
(* The extension: package operations, environment scans and switches, on small inputs *)

OneInstalled == <<[name |-> "requests", version |-> "2.28.0"]>>
OneOutdated == <<[name |-> "requests", version |-> "2.28.0", latest_version |-> "2.31.0"]>>

SomeInstalledOutcomes == {Exit(1, NotJson), Exit(0, JsonArray(OneInstalled))}
SomeOutdatedOutcomes == {Exit(1, NotJson), Exit(0, JsonArray(OneOutdated))}
SomeShowOutcomes == {Exit(1, <<>>)}
SomeUpgradeOutcomes == {Exit(1, ""), Exit(0, "")}
SomeNameLists == {<<>>, <<"requests", "flask">>}

Init ==
    /\ host \in {HostSetting, HostNone}
    /\ fs = Fs0
    /\ currentEnv = NoEnv
    /\ prevEnv = NoEnv
    /\ environments = <<>>
    /\ packages = <<>>
    /\ ops = [i \in OpIds |-> IdleOp]
    /\ scan = IdleScan
    /\ panel = NoPanel

Next ==
    \/ \E i \in OpIds : ListStart(i)
    \/ \E i \in OpIds : ListNotLocated(i)
    \/ \E i \in OpIds, o \in SomeInstalledOutcomes : ListInstalled(i, o)
    \/ \E i \in OpIds, o \in SomeOutdatedOutcomes : ListOutdated(i, o)
    \/ \E i \in OpIds, o \in SomeShowOutcomes : ListShow(i, o)
    \/ \E i \in OpIds, names \in SomeNameLists : UpdStart(i, names)
    \/ \E i \in OpIds : UpdNotLocated(i)
    \/ \E i \in OpIds, o \in SomeUpgradeOutcomes : UpdCombined(i, o)
    \/ \E i \in OpIds, o \in SomeUpgradeOutcomes : UpdEach(i, o)
    \/ \E i \in OpIds, k \in SingleKinds : SingleStart(i, k, <<"requests">>)
    \/ \E i \in OpIds : SingleNotLocated(i)
    \/ \E i \in OpIds, o \in SomeUpgradeOutcomes : SingleExec(i, o)
    \/ \E i \in OpIds : Retire(i)
    \/ ScanStart
    \/ ScanStep
    \/ \E k \in 1..Len(environments) : SwitchEnvironment(k)
    \/ SwitchNoItem

Spec == Init /\ [][Next]_vars

----------------------------------------------------------------------------
(* One getInstalledPackages call by the package provider, on every input *)

Idle ==
    /\ currentEnv = NoEnv
    /\ prevEnv = NoEnv
    /\ environments = <<>>
    /\ packages = <<>>
    /\ ops = [i \in OpIds |-> IdleOp]
    /\ scan = IdleScan
    /\ panel = NoPanel

InitList ==
    /\ host \in {HostSetting, HostNone}
    /\ fs = Fs0
    /\ Idle

NextList ==
    \/ ListStart(1)
    \/ ListNotLocated(1)
    \/ \E o \in InstalledOutcomes : ListInstalled(1, o)
    \/ \E o \in OutdatedOutcomes : ListOutdated(1, o)
    \/ \E o \in ShowOutcomes : ListShow(1, o)

SpecList == InitList /\ [][NextList]_vars

----------------------------------------------------------------------------
(* Environments: enumeration, selection and creation *)

CreateNames == {"env", "myenv"}
CreateOutcomes == {SpawnFailure(""), Exit(1, ""), Exit(0, "")}

InitEnv ==
    /\ host \in {HostSetting, HostNone, HostNoFolders}
    /\ fs = Fs0
    /\ Idle

NextEnv ==
    \/ ScanStart
    \/ ScanStep
    \/ \E k \in 1..Len(environments) : SwitchEnvironment(k)
    \/ SwitchNoItem
    \/ \E name \in CreateNames : CreateStart(1, name)
    \/ CreateNotResolved(1)
    \/ CreateNoWorkspace(1)
    \/ \E o \in CreateOutcomes : CreateExec(1, o)
    \/ CreateSwitch(1)
    \/ CreateDecline(1)
    \/ Retire(1)

SpecEnv == InitEnv /\ [][NextEnv]_vars

----------------------------------------------------------------------------
(* One updatePackages call, on every input *)

InitUpd ==
    /\ host \in BasicHosts
    /\ fs = Fs0
    /\ currentEnv \in {NoEnv, EnvWithPip, EnvWithoutPip}
    /\ prevEnv = NoEnv
    /\ environments = <<>>
    /\ packages = <<>>
    /\ ops = [i \in OpIds |-> IdleOp]
    /\ scan = IdleScan
    /\ panel = NoPanel

NextUpd ==
    \/ \E names \in NameLists : UpdStart(1, names)
    \/ UpdNotLocated(1)
    \/ \E o \in UpgradeOutcomes : UpdCombined(1, o)
    \/ \E o \in UpgradeOutcomes : UpdEach(1, o)

SpecUpd == InitUpd /\ [][NextUpd]_vars

----------------------------------------------------------------------------
(* getPipCommand and getPythonPath on every host *)

VersionResults == {Rejected, Python3Text, NoText}

PosixHosts ==
    {Host(FALSE, ext, setting,
          [NoWhich EXCEPT !["python3"] = w3, !["python"] = w],
          [NoVersion EXCEPT ![PySetting] = vs, ![PyUsr3] = v3, ![PyUsr] = v, ![PyLocal3] = vl],
          <<Root1, Root2>>) :
        ext \in BOOLEAN, setting \in {None, PySetting},
        w3 \in {WhichMiss, WhichHits(<<>>), WhichHits(<<PyUsr3>>), WhichHits(<<PyLocal3, PyUsr3>>)},
        w \in {WhichMiss, WhichHits(<<PyUsr>>)},
        vs \in VersionResults, v3 \in VersionResults, v \in VersionResults,
        vl \in {Rejected, Python3Text}}

WindowsHosts ==
    {Host(TRUE, TRUE, None,
          [NoWhich EXCEPT !["python.exe"] = w, !["py.exe"] = wl],
          [NoVersion EXCEPT ![PyWin] = v],
          <<Root1>>) :
        w \in {WhichMiss, WhichHits(<<PyWin>>)}, wl \in {WhichMiss, WhichHits(<<PyWin>>)},
        v \in VersionResults}

\* ws1/.venv as a Windows environment with pip.exe, ws1/venv one without
FsWin ==
    [dirs |-> {Root1 \o <<".venv">>, Root1 \o <<"venv">>},
     files |-> {Root1 \o <<".venv", "Scripts", "python.exe">>,
                Root1 \o <<"venv", "Scripts", "python.exe">>,
                Root1 \o <<".venv", "Scripts", "pip.exe">>},
     exec |-> {Root1 \o <<".venv", "Scripts", "python.exe">>,
               Root1 \o <<"venv", "Scripts", "python.exe">>,
               Root1 \o <<".venv", "Scripts", "pip.exe">>}]

InitLoc ==
    /\ host \in PosixHosts \cup WindowsHosts
    /\ fs = IF host.win32 THEN FsWin ELSE Fs0
    /\ currentEnv \in {NoEnv, EnvWithPip, EnvWithoutPip}
    /\ prevEnv = NoEnv
    /\ environments = <<>>
    /\ packages = <<>>
    /\ ops = [i \in OpIds |-> IdleOp]
    /\ scan = IdleScan
    /\ panel = NoPanel

NextLoc ==
    \/ \E k \in SingleKinds : SingleStart(1, k, <<"requests">>)
    \/ SingleNotLocated(1)
    \/ \E o \in SomeUpgradeOutcomes : SingleExec(1, o)

SpecLoc == InitLoc /\ [][NextLoc]_vars

----------------------------------------------------------------------------
(* Every operation of the core in one workspace folder *)

\* ws1/.venv, an environment with pip, and nothing else
FsOne ==
    [dirs |-> {Root1 \o <<".venv">>},
     files |-> {Root1 \o <<".venv", "bin", "python">>, Root1 \o <<".venv", "bin", "pip">>},
     exec |-> {Root1 \o <<".venv", "bin", "python">>, Root1 \o <<".venv", "bin", "pip">>}]

InitCore ==
    /\ host = HostOneRoot
    /\ fs = FsOne
    /\ Idle

NextCore ==
    \/ ListStart(1)
    \/ \E o \in SomeInstalledOutcomes : ListInstalled(1, o)
    \/ \E o \in SomeOutdatedOutcomes : ListOutdated(1, o)
    \/ \E o \in SomeShowOutcomes : ListShow(1, o)
    \/ \E names \in SomeNameLists : UpdStart(1, names)
    \/ \E o \in SomeUpgradeOutcomes : UpdCombined(1, o)
    \/ \E o \in SomeUpgradeOutcomes : UpdEach(1, o)
    \/ \E k \in SingleKinds : SingleStart(1, k, <<"requests">>)
    \/ \E o \in SomeUpgradeOutcomes : SingleExec(1, o)
    \/ Retire(1)
    \/ ScanStart
    \/ ScanStep
    \/ \E k \in 1..Len(environments) : SwitchEnvironment(k)
    \/ SwitchNoItem
    \/ CreateStart(1, "env")
    \/ \E o \in SomeUpgradeOutcomes : CreateExec(1, o)
    \/ CreateSwitch(1)
    \/ CreateDecline(1)

SpecCore == InitCore /\ [][NextCore]_vars

\* a spawned process closes, or fails to spawn, and the awaiting call continues
ProcessCloses ==
    \/ \E o \in SomeInstalledOutcomes : ListInstalled(1, o)
    \/ \E o \in SomeOutdatedOutcomes : ListOutdated(1, o)
    \/ \E o \in SomeShowOutcomes : ListShow(1, o)
    \/ \E o \in SomeUpgradeOutcomes : UpdCombined(1, o)
    \/ \E o \in SomeUpgradeOutcomes : UpdEach(1, o)
    \/ \E o \in SomeUpgradeOutcomes : SingleExec(1, o)
    \/ \E o \in SomeUpgradeOutcomes : CreateExec(1, o)

\* the same operations, every spawned process eventually closing or failing to
\* spawn: the 'close' or 'error' event of executeCommand is delivered
SpecLive == InitCore /\ [][NextCore]_vars /\ WF_vars(ProcessCloses)

----------------------------------------------------------------------------
(* install, uninstall and update with the spawned process in detail *)

InitRun ==
    /\ host \in {HostSetting, HostPath}
    /\ fs = Fs0
    /\ currentEnv \in {NoEnv, EnvWithPip, EnvWithoutPip}
    /\ prevEnv = NoEnv
    /\ environments = <<>>
    /\ packages = <<>>
    /\ ops = [i \in OpIds |-> IdleOp]
    /\ scan = IdleScan
    /\ panel = NoPanel

NextRun ==
    \/ \E k \in SingleKinds : SingleStart(1, k, <<"requests">>)
    \/ \E p \in Processes : SingleRun(1, p)

SpecRun == InitRun /\ [][NextRun]_vars

----------------------------------------------------------------------------
(* Two getInstalledPackages calls by the package provider that overlap *)

\* the first and the second getChildren call
CallPair == {1, 2}

InitTwo ==
    /\ host = HostOneRoot
    /\ fs = FsOne
    /\ currentEnv = NoEnv
    /\ prevEnv = NoEnv
    /\ environments = <<EnvInfo(".venv", Root1 \o <<".venv">>, FALSE)>>
    /\ packages = <<>>
    /\ ops = [i \in CallPair |-> IdleOp]
    /\ scan = IdleScan
    /\ panel = NoPanel

\* call 2 begins while call 1 is suspended at one of its awaits; the view has
\* enumerated ws1/.venv, which may be switched to at any time
NextTwo ==
    \/ ListStart(1)
    \/ ops[1].kind = "list" /\ ops[1].pc # "done" /\ ListStart(2)
    \/ \E i \in CallPair, o \in SomeInstalledOutcomes : ListInstalled(i, o)
    \/ \E i \in CallPair, o \in SomeOutdatedOutcomes : ListOutdated(i, o)
    \/ \E i \in CallPair, o \in SomeShowOutcomes : ListShow(i, o)
    \/ \E k \in 1..Len(environments) : SwitchEnvironment(k)

SpecTwo == InitTwo /\ [][NextTwo]_vars

----------------------------------------------------------------------------
(* The package view's fetch and the uninstall and update commands *)

InitCmd ==
    /\ host = HostOneRoot
    /\ fs = FsOne
    /\ Idle

NextCmd ==
    \/ ListStart(1)
    \/ \E o \in SomeInstalledOutcomes : ListInstalled(1, o)
    \/ \E o \in SomeOutdatedOutcomes : ListOutdated(1, o)
    \/ \E o \in SomeShowOutcomes : ListShow(1, o)
    \/ \E kind \in CommandKinds, item \in PkgNames : CommandInvoked(1, kind, item, "")
    \/ \E kind \in CommandKinds, typed \in TypedNames : CommandInvoked(1, kind, "", typed)
    \/ \E yes \in BOOLEAN : CommandConfirmed(1, yes)
    \/ \E o \in SomeUpgradeOutcomes : SingleExec(1, o)
    \/ Retire(1)
    \/ ScanStart
    \/ ScanStep
    \/ \E k \in 1..Len(environments) : SwitchEnvironment(k)

SpecCmd == InitCmd /\ [][NextCmd]_vars

----------------------------------------------------------------------------
(* The dashboard panel: shown, hidden, refreshed, jobs from the webview *)

InitDash ==
    /\ host = HostOneRoot
    /\ fs = FsOne
    /\ Idle

NextDash ==
    \/ createOrShow
    \/ \E v \in BOOLEAN : onDidChangeViewState(v)
    \/ refreshPackages
    \/ \E list \in DashLists : postPackages(list)
    \/ \E kind \in JobKinds : jobMessage(kind)
    \/ \E yes \in BOOLEAN : confirmation(yes)
    \/ \E success \in BOOLEAN : jobReturns(success)
    \/ dispose
    \/ Tick

SpecDash == InitDash /\ [][NextDash]_vars

----------------------------------------------------------------------------
(* Properties of package listing (SpecList) *)

ListDone(i) == ops[i].kind = "list" /\ ops[i].pc = "done"

\* the 'list installed' query ran
InstalledRan(op) == Len(op.spawned) >= 1
\* ... and closed with code 0 and a parseable list
InstalledOk(op) == InstalledRan(op) /\ Resolves(op.installedOut) /\ op.installedOut.stdout.json
\* the 'list outdated' query ran
OutdatedRan(op) == Len(op.spawned) >= 2

\* C1: when the 'list installed' query fails (non-zero exit or spawn failure) or
\* returns output that cannot be parsed, the call fails to its caller: the promise
\* rejects and no list, not even an empty one, is returned.
C1_InstalledFailureRaises ==
    \A i \in OpIds :
        (ListDone(i) /\ InstalledRan(ops[i]) /\ ~InstalledOk(ops[i]))
            => (ops[i].threw /\ ~ops[i].returned)

\* C2: when the 'list installed' query succeeds and the 'list outdated' query fails
\* (non-zero exit or spawn failure), the call returns, without raising, one record
\* for every installed package, in order, each with hasUpdate = FALSE.
C2_OutdatedFailureKeepsInstalled ==
    \A i \in OpIds :
        (ListDone(i) /\ InstalledOk(ops[i]) /\ OutdatedRan(ops[i])
                     /\ ~Resolves(ops[i].outdatedOut))
            => LET installed == ops[i].installedOut.stdout.value
                   result == ops[i].result
               IN  /\ ops[i].returned /\ ~ops[i].threw /\ ~ops[i].caught
                   /\ Len(result) = Len(installed)
                   /\ \A k \in DOMAIN installed :
                          /\ result[k].name = installed[k].name
                          /\ result[k].version = installed[k].version
                          /\ result[k].hasUpdate = FALSE

\* two installed packages are listed although the outdated query could not be spawned
C2_Witness ==
    /\ ListDone(1) /\ InstalledOk(ops[1])
    /\ Len(ops[1].installedOut.stdout.value) = 2
    /\ OutdatedRan(ops[1]) /\ ops[1].outdatedOut = SpawnFailure(NotJson)
    /\ Len(ops[1].result) = 2

\* the names the outdated query's result lists (none when the query failed)
OutdatedNames(op) ==
    IF Resolves(op.outdatedOut) /\ op.outdatedOut.stdout.json
    THEN {op.outdatedOut.stdout.value[k].name : k \in DOMAIN op.outdatedOut.stdout.value}
    ELSE {}

\* C3: in every list the call returns, a record's hasUpdate is TRUE iff its name
\* is in the lookup built from the outdated query's result, and latest is set
\* iff hasUpdate is TRUE; installed [requests 2.28.0] with outdated
\* [requests 2.28.0 -> 2.31.0] gives {requests, 2.28.0, latest 2.31.0, TRUE}.
C3_HasUpdateIffOutdated ==
    \A i \in OpIds :
        (ListDone(i) /\ ops[i].returned)
            => /\ \A k \in DOMAIN ops[i].result :
                      LET r == ops[i].result[k]
                      IN  /\ r.hasUpdate <=> (r.name \in OutdatedNames(ops[i]))
                          /\ (r.latest # Undefined) <=> r.hasUpdate
               /\ (/\ InstalledOk(ops[i])
                   /\ ops[i].installedOut.stdout.value = OneInstalled
                   /\ ops[i].outdatedOut = Exit(0, JsonArray(OneOutdated)))
                      => /\ Len(ops[i].result) = 1
                         /\ ops[i].result[1].name = "requests"
                         /\ ops[i].result[1].version = "2.28.0"
                         /\ ops[i].result[1].latest = "2.31.0"
                         /\ ops[i].result[1].hasUpdate = TRUE

\* the scenario: one record for requests, with its update
C3_Witness ==
    /\ ListDone(1) /\ ops[1].returned
    /\ ops[1].installedOut = Exit(0, JsonArray(OneInstalled))
    /\ ops[1].outdatedOut = Exit(0, JsonArray(OneOutdated))
    /\ Len(ops[1].result) = 1
    /\ ops[1].result[1].hasUpdate

----------------------------------------------------------------------------
(* Properties of batch update (SpecUpd) *)

UpdDone(i) == ops[i].kind = "updateMany" /\ ops[i].pc = "done"

\* the combined upgrade ran
CombinedRan(op) == Len(op.upgradeOuts) >= 1

\* the upgrade command line for some names
UpgradeLine(op, names) == CommandLine(op.desc, <<"install", "--upgrade">> \o names)

RECURSIVE NamesWhere(_, _, _, _)
\* the names whose own invocation (outs[k + 1] for names[k]) did or did not exit zero
NamesWhere(names, outs, zero, k) ==
    IF k > Len(names) THEN <<>>
    ELSE IF Resolves(outs[k + 1]) = zero
         THEN <<names[k]>> \o NamesWhere(names, outs, zero, k + 1)
         ELSE NamesWhere(names, outs, zero, k + 1)

\* C4: when the combined upgrade fails (non-zero exit or spawn error), the upgrade
\* is invoked once per requested name, in order, whatever the earlier outcomes; a
\* name is reported succeeded iff its own invocation exits zero, failed otherwise.
C4_PerNameFallback ==
    \A i \in OpIds :
        (UpdDone(i) /\ CombinedRan(ops[i]) /\ ~Resolves(ops[i].upgradeOuts[1]))
            => LET op == ops[i]
               IN  /\ Len(op.spawned) = 1 + Len(op.names)
                   /\ Len(op.upgradeOuts) = 1 + Len(op.names)
                   /\ \A k \in DOMAIN op.names :
                          op.spawned[k + 1] = UpgradeLine(op, <<op.names[k]>>)
                   /\ op.success = NamesWhere(op.names, op.upgradeOuts, TRUE, 1)
                   /\ op.failed = NamesWhere(op.names, op.upgradeOuts, FALSE, 1)
                   /\ op.returned /\ ~op.threw

\* the first name fails, the second is still attempted and succeeds
C4_Witness ==
    /\ UpdDone(1)
    /\ ops[1].names = <<"requests", "flask">>
    /\ ops[1].upgradeOuts = <<Exit(1, ""), SpawnFailure(""), Exit(0, "")>>
    /\ ops[1].success = <<"flask">>
    /\ ops[1].failed = <<"requests">>

\* C5: when the combined upgrade exits zero, every requested name is reported
\* succeeded, failed is empty, and no per-name invocation is made.
C5_CombinedSuccess ==
    \A i \in OpIds :
        (ops[i].kind = "updateMany" /\ CombinedRan(ops[i]) /\ Resolves(ops[i].upgradeOuts[1]))
            => /\ ops[i].pc = "done" /\ ops[i].returned /\ ~ops[i].threw
               /\ ops[i].success = ops[i].names
               /\ ops[i].failed = <<>>
               /\ ops[i].spawned = <<UpgradeLine(ops[i], ops[i].names)>>

C5_Witness ==
    /\ UpdDone(1)
    /\ ops[1].names = <<"requests", "flask">>
    /\ ops[1].upgradeOuts = <<Exit(0, "")>>
    /\ ops[1].success = <<"requests", "flask">>

\* C6: updatePackages([]) returns empty success and failed lists and runs no
\* process: no pip process, and no process of interpreter resolution.
C6_EmptyInput ==
    \A i \in OpIds :
        (ops[i].kind = "updateMany" /\ ops[i].names = <<>>)
            => /\ ops[i].pc = "done" /\ ops[i].returned /\ ~ops[i].threw
               /\ ops[i].success = <<>> /\ ops[i].failed = <<>>
               /\ ops[i].spawned = <<>>
               /\ ~ops[i].located /\ ops[i].desc.trace = <<>>

\* the empty call has returned on a host where resolution would have run processes
C6_Witness ==
    /\ UpdDone(1) /\ ops[1].names = <<>> /\ ops[1].returned
    /\ currentEnv = NoEnv /\ getPythonPath(host).trace # <<>>

\* some candidate the resolver examines answers --version with the runtime's name
SomeInterpreter(h) ==
    \/ /\ h.pythonExtension /\ h.defaultInterpreterPath # None
       /\ ~h.version[h.defaultInterpreterPath].rejected
       /\ IncludesPython(h.version[h.defaultInterpreterPath].stdout)
    \/ \E c \in Elements(PythonCommands(h)) :
          /\ ~h.which[c].rejected /\ h.which[c].stdout # <<>>
          /\ ~h.version[h.which[c].stdout[1]].rejected
          /\ IncludesPython(h.version[h.which[c].stdout[1]].stdout)

\* the environment has an executable pip
HasPip(h, f, env) == env # NoEnv /\ (env.path \o <<BinDir(h), PipCommand(h)>>) \in f.exec

\* C7: updatePackages never throws; when there is no pip executable in the active
\* environment and no valid interpreter, every requested name is reported failed,
\* success is empty, and no upgrade process is spawned.
C7_NoInvocation ==
    \A i \in OpIds :
        ops[i].kind = "updateMany"
            => /\ ~ops[i].threw
               /\ (ops[i].pc = "done" /\ ops[i].names # <<>>
                     /\ ~HasPip(host, fs, ops[i].env) /\ ~SomeInterpreter(host))
                      => /\ ops[i].returned
                         /\ ops[i].failed = ops[i].names
                         /\ ops[i].success = <<>>
                         /\ ops[i].spawned = <<>>

\* an environment without pip is active and no interpreter resolves
C7_Witness ==
    /\ UpdDone(1) /\ ops[1].names = <<"requests", "flask">>
    /\ ops[1].env = EnvWithoutPip /\ ~SomeInterpreter(host)
    /\ ops[1].failed = <<"requests", "flask">>

----------------------------------------------------------------------------
(* Properties of location and resolution (SpecLoc) *)

\* '<p> --version' answers with the runtime's name
Validates(h, p) == ~h.version[p].rejected /\ IncludesPython(h.version[p].stdout)

\* C8: with an active environment whose pip is absent or not executable,
\* getPipCommand gives {interpreter, [-m, pip]} and fails only if no interpreter
\* resolves; with one whose pip is present and executable it gives that
\* executable with no argument prefix and runs no interpreter resolution.
C8_LocatorFallback ==
    \A i \in OpIds :
        (ops[i].located /\ ops[i].env # NoEnv)
            => LET d == ops[i].desc
                   pip == ops[i].env.path \o <<BinDir(host), PipCommand(host)>>
               IN  IF pip \in fs.exec
                   THEN d.ok /\ d.command = pip /\ d.args = <<>> /\ d.trace = <<>>
                   ELSE /\ d.ok <=> SomeInterpreter(host)
                        /\ d.ok => /\ d.args = <<"-m", "pip">>
                                   /\ d.command \in Candidates
                                   /\ Validates(host, d.command)

\* pip is missing from the active environment and the interpreter-module form is used
C8_Witness ==
    /\ ops[1].located /\ ops[1].env = EnvWithoutPip
    /\ ops[1].desc.ok /\ ops[1].desc.args = <<"-m", "pip">>
    /\ ops[1].desc.command = PyUsr

RECURSIVE WhichArgs(_, _)
\* the command names a trace looked up, in order
WhichArgs(trace, k) ==
    IF k > Len(trace) THEN <<>>
    ELSE IF trace[k].kind = "which" THEN <<trace[k].arg[1]>> \o WhichArgs(trace, k + 1)
    ELSE WhichArgs(trace, k + 1)

\* the host gives a configured interpreter: the Python extension is installed and
\* python.defaultInterpreterPath is set
SettingPresent(h) == h.pythonExtension /\ h.defaultInterpreterPath # None

C10_WitnessSetting ==
    /\ ops[1].located /\ ops[1].env = NoEnv
    /\ SettingPresent(host) /\ Validates(host, PySetting)
    /\ host.which["python3"] = WhichHits(<<PyUsr3>>) /\ Validates(host, PyUsr3)
    /\ ops[1].desc.command = PySetting

\* some line of some lookup's output, or the configured interpreter, validates
AnyHitValidates(h) ==
    \/ SettingPresent(h) /\ Validates(h, h.defaultInterpreterPath)
    \/ \E c \in Elements(PythonCommands(h)) :
          /\ ~h.which[c].rejected
          /\ \E k \in DOMAIN h.which[c].stdout : Validates(h, h.which[c].stdout[k])

\* C11: getPythonPath fails only after exhausting all candidates: every hit of
\* every lookup is validated, so resolution succeeds iff any hit (not just the
\* first line a lookup reports for a command name) validates.
C11_EveryHitValidated ==
    \A i \in OpIds :
        (ops[i].located /\ ~HasPip(host, fs, ops[i].env))
            => (ops[i].desc.ok <=> AnyHitValidates(host))

----------------------------------------------------------------------------
(* Properties of the whole extension (Spec) *)

\* the descriptor is the one getPipCommand gives for environment env
Targets(d, env) ==
    IF HasPip(host, fs, env)
    THEN d.ok /\ d.command = env.path \o <<BinDir(host), PipCommand(host)>> /\ d.args = <<>>
    ELSE d.ok => (d.args = <<"-m", "pip">> /\ d.command \in Candidates)

\* C9: no stale descriptor survives an environment switch: every manager call
\* (list, install, uninstall, update, updateMany) that began after the last
\* change of the current environment has its invocation resolved against the
\* environment that is current, never against the one active before.
C9_NoStaleDescriptor ==
    \A i \in OpIds :
        (ops[i].located /\ ~ops[i].overtaken)
            => /\ ops[i].env = currentEnv
               /\ Targets(ops[i].desc, currentEnv)

\* after a switch from an environment with pip to one without, a call uses python -m pip
C9_Witness ==
    /\ ops[1].located /\ ~ops[1].overtaken
    /\ prevEnv = EnvWithPip /\ currentEnv = EnvWithoutPip
    /\ ops[1].desc.ok /\ ops[1].desc.args = <<"-m", "pip">>

\* after a switch from the environment without pip to one with pip, a call uses that pip
C9_WitnessPip ==
    /\ ops[1].kind = "list" /\ ops[1].located /\ ~ops[1].overtaken
    /\ prevEnv = EnvWithoutPip /\ currentEnv = EnvWithPip
    /\ ops[1].desc.command = EnvWithPip.path \o <<"bin", "pip">>

----------------------------------------------------------------------------
(* Properties of environment selection (SpecEnv, Spec) *)

\* the names setActiveEnvironment is given: a held record's, a created
\* environment's, or '' from switchEnvironment without a tree item
SetActiveNames == Elements(EnvFolders) \cup CreateNames \cup {""}

ActiveCount(envs) == Cardinality({j \in DOMAIN envs : envs[j].isActive})

\* setActive(name) twice in a row, from the state at hand
Once(n) == setActive(environments, currentEnv, n)
Twice(n) == setActive(Once(n).environments, Once(n).currentEnv, n)

\* C12 as stated: for any held record set and any name, setActive(name) twice in
\* a row leaves exactly one record active and the same record set and
\* current-environment reference as calling it once.
C12_TwiceAsOnceExactlyOne ==
    \A n \in SetActiveNames :
        /\ Twice(n) = Once(n)
        /\ ActiveCount(Twice(n).environments) = 1

\* C12 amended: setActive(name) twice in a row leaves the same record set and
\* current-environment reference as calling it once; exactly one record is
\* active when a held record has that name, and none is active (with the
\* current-environment reference untouched) when no held record has it.
C12_TwiceAsOnce ==
    \A n \in SetActiveNames :
        /\ Twice(n) = Once(n)
        /\ IF FindByName(environments, n, 1) # 0
           THEN ActiveCount(Twice(n).environments) = 1
           ELSE ActiveCount(Twice(n).environments) = 0 /\ Twice(n).currentEnv = currentEnv

\* two held records are named venv; setActive('venv') has made the first one
\* active, and the second call the other record's tree item makes changes nothing
C12_Witness ==
    \E j, k \in DOMAIN environments :
        /\ j < k
        /\ environments[j].name = "venv" /\ environments[k].name = "venv"
        /\ environments[j].isActive /\ ~environments[k].isActive
        /\ currentEnv.path = environments[j].path
        /\ prevEnv # NoEnv
        /\ Once("venv") = [environments |-> environments, currentEnv |-> currentEnv]

\* C13: setActive(name) clears the active flag on every held record, then sets
\* it on the first held record of that name and makes that record the current
\* environment, so that the package-manager invocation of a later call is the
\* one located for that record.
C13_SetActiveFirstMatch ==
    \A n \in SetActiveNames :
        LET k == FindByName(environments, n, 1)
            r == Once(n)
        IN  /\ Len(r.environments) = Len(environments)
            /\ \A j \in DOMAIN environments :
                   /\ r.environments[j].isActive <=> (j = k)
                   /\ r.environments[j].name = environments[j].name
                   /\ r.environments[j].path = environments[j].path
            /\ k # 0 =>
                   /\ environments[k].name = n
                   /\ \A j \in 1..(k - 1) : environments[j].name # n
                   /\ r.currentEnv.name = n
                   /\ r.currentEnv.path = environments[k].path
                   /\ Targets(getPipCommand(host, fs, r.currentEnv),
                              [name |-> n, path |-> environments[k].path])

\* the first of two records named venv is active and current after a switch from
\* another environment, and a listing begun since then uses it
C13_Witness ==
    /\ Len(environments) = 3
    /\ environments[1].name = "venv" /\ environments[1].isActive
    /\ environments[3].name = "venv" /\ ~environments[3].isActive
    /\ currentEnv.path = environments[1].path
    /\ prevEnv = EnvWithPip
    /\ ops[1].kind = "list" /\ ops[1].located /\ ~ops[1].overtaken
    /\ ops[1].env = currentEnv

\* C14: in every reachable state, after any sequence of listings, setActive,
\* createEnvironment and switch operations, every held or returned environment
\* record is active iff its path is the path of the current environment.
C14_ActiveIffCurrent ==
    /\ \A j \in DOMAIN environments :
           environments[j].isActive <=> (environments[j].path = currentEnv.path)
    /\ \A i \in OpIds :
           (ops[i].kind = "create" /\ ops[i].returned) =>
               \A j \in DOMAIN ops[i].result :
                   ops[i].result[j].isActive <=> (ops[i].result[j].path = currentEnv.path)

\* C15: in every reachable state at most one held environment record is active,
\* also when several workspace roots hold an environment of the same name.
C15_AtMostOneActive == ActiveCount(environments) <= 1

----------------------------------------------------------------------------
(* Properties of enumeration and creation (SpecEnv) *)

\* the record is one of <root>/<candidate> that passes both checks
Reportable(e) ==
    /\ \E r \in Elements(host.workspaceFolders), c \in Elements(EnvFolders) :
           e.name = c /\ e.path = r \o <<c>>
    /\ e.path \in fs.dirs
    /\ (e.path \o PythonExe(host)) \in fs.files

\* C16: a listing emits a record for <root>/<candidate> only if that path is a
\* directory and its interior interpreter executable is a file; a candidate
\* directory without an interpreter is never reported.
C16_OnlyValidEnvironments ==
    /\ \A j \in DOMAIN environments : Reportable(environments[j])
    /\ \A j \in DOMAIN scan.found : Reportable(scan.found[j])

\* a listing has finished: ws2/env, a directory without an interpreter, and
\* ws2/.env, a regular file, are left out, ws2/venv is reported
C16_Witness ==
    /\ scan.pc = "idle"
    /\ (Root2 \o <<"env">>) \in fs.dirs
    /\ (Root2 \o <<".env">>) \in fs.files
    /\ \E j \in DOMAIN environments : environments[j].path = Root2 \o <<"venv">>
    /\ \A j \in DOMAIN environments :
           environments[j].path \notin {Root2 \o <<"env">>, Root2 \o <<".env">>}

CreateReturned(i) == ops[i].kind = "create" /\ ops[i].pc \in {"asked", "done"}

\* the venv-creation process ran
VenvRan(op) == Len(op.upgradeOuts) >= 1

\* the step in which createVirtualEnvironment returns
CreateReturns(i) ==
    /\ ops[i].kind = "create" /\ ops[i].pc = "resolved"
    /\ ops'[i].kind = "create" /\ ops'[i].pc \in {"asked", "done"}

\* C17: createEnvironment(name) returns {name, <first workspace root>/<name>,
\* isActive = FALSE} when the venv creation exits zero, and its return leaves the
\* current environment as it was; it fails with a descriptive error, the
\* venv-creation process not spawned, when no workspace root is open, and fails
\* when the creation exits non-zero.
C17_CreateEnvironment ==
    /\ [](\A i \in OpIds : CreateReturned(i) =>
            LET op == ops[i]
            IN  /\ (VenvRan(op) /\ Resolves(op.upgradeOuts[1])) =>
                       /\ op.returned /\ ~op.caught
                       /\ op.result = <<[name |-> op.names[1],
                                         path |-> host.workspaceFolders[1] \o op.names,
                                         isActive |-> FALSE]>>
                /\ Len(host.workspaceFolders) = 0 =>
                       /\ op.result = <<>> /\ op.caught /\ op.message # ""
                       /\ op.spawned = <<>> /\ ~VenvRan(op)
                /\ (VenvRan(op) /\ ~Resolves(op.upgradeOuts[1])) =>
                       op.result = <<>> /\ op.caught /\ op.message # "")
    /\ [][\A i \in OpIds : CreateReturns(i) =>
              (currentEnv' = currentEnv /\ environments' = environments)]_vars

\* ws1/env has been created while ws1/.venv is the current environment
C17_Witness ==
    /\ ops[1].kind = "create" /\ ops[1].pc = "asked"
    /\ ops[1].result = <<EnvInfo("env", Root1 \o <<"env">>, FALSE)>>
    /\ (Root1 \o <<"env", "bin", "python">>) \in fs.files
    /\ currentEnv = EnvWithPip

\* creation fails for want of a workspace folder
C17_WitnessNoWorkspace ==
    /\ ops[1].kind = "create" /\ ops[1].pc = "done"
    /\ host.workspaceFolders = <<>>
    /\ ops[1].message = "No workspace folder is open"

----------------------------------------------------------------------------
(* Properties of package listing: descriptions and the outdated output (SpecList) *)

\* both list queries exited zero with parseable output
BothListsOk(op) ==
    /\ InstalledOk(op) /\ OutdatedRan(op)
    /\ OutdatedOutput(op.outdatedOut).json

\* C18: a failed or absent description query gives an empty description for
\* that package only; the listing is never aborted, and the name, version,
\* latest and hasUpdate of every record are what the two list queries give,
\* whichever description queries fail.
C18_DescriptionFailureIsLocal ==
    \A i \in OpIds :
        (ops[i].kind = "list" /\ BothListsOk(ops[i]))
            => LET op == ops[i]
                   installed == op.installedOut.stdout.value
                   m == OutdatedMap(OutdatedOutput(op.outdatedOut).value)
               IN  /\ ~op.caught /\ ~op.threw
                   /\ Len(op.details) = Len(op.showOuts)
                   /\ \A k \in DOMAIN op.details :
                          /\ op.details[k].name = installed[k].name
                          /\ op.details[k].version = installed[k].version
                          /\ op.details[k].latest = MapGet(m, installed[k].name)
                          /\ op.details[k].hasUpdate = Truthy(MapGet(m, installed[k].name))
                          /\ op.details[k].description =
                                 IF Resolves(op.showOuts[k])
                                 THEN FindSummary(op.showOuts[k].stdout, 1) ELSE ""
                   /\ op.pc = "done" => (op.returned /\ op.result = op.details
                                           /\ Len(op.result) = Len(installed))

\* the first description query fails, the second succeeds: both records are
\* listed, the first without a description, the second with one
C18_Witness ==
    /\ ListDone(1) /\ BothListsOk(ops[1])
    /\ Len(ops[1].result) = 2
    /\ ~Resolves(ops[1].showOuts[1]) /\ Resolves(ops[1].showOuts[2])
    /\ ops[1].result[1].description = ""
    /\ ops[1].result[2].description = "HTTP for Humans"
    /\ ops[1].result[1].hasUpdate

\* C19: when the 'list installed' query succeeds and the 'list outdated' query
\* exits zero with output that cannot be parsed, the listing degrades to 'no
\* package outdated': every installed record is returned, with hasUpdate = FALSE,
\* and the call neither fails nor returns an empty list.
C19_UnparseableOutdatedDegrades ==
    \A i \in OpIds :
        (ListDone(i) /\ InstalledOk(ops[i]) /\ OutdatedRan(ops[i])
                     /\ Resolves(ops[i].outdatedOut) /\ ~ops[i].outdatedOut.stdout.json)
            => LET installed == ops[i].installedOut.stdout.value
                   result == ops[i].result
               IN  /\ ops[i].returned /\ ~ops[i].threw /\ ~ops[i].caught
                   /\ Len(result) = Len(installed)
                   /\ \A k \in DOMAIN result :
                          /\ result[k].name = installed[k].name
                          /\ result[k].hasUpdate = FALSE

----------------------------------------------------------------------------
(* Properties of the Command Runner (SpecRun) *)

\* the errors executeCommand gives for a program that ran and exited non-zero
ExecutionErrors ==
    {executeCommand(p).error : p \in {q \in Processes : q.launch = "runs" /\ q.code # 0}}

\* C20: executeCommand resolves with the collected stdout iff the process exits
\* with code 0; a non-zero exit gives an error carrying the exit code and the
\* stderr text; a spawn failure (no such executable, permission denied, no shell)
\* gives an error that is not one a non-zero exit gives; the command line is
\* spawned once, never again.
C20_RunnerSettlement ==
    \A i \in OpIds :
        ops[i].process # NoProcess
            => LET p == ops[i].process
                   r == ops[i].settled
               IN  /\ r.resolved <=> (p.launch = "runs" /\ p.code = 0)
                   /\ r.resolved => r.value = p.stdout
                   /\ (p.launch = "runs" /\ p.code # 0) =>
                          (r.error.exit = p.code /\ r.error.stderr = p.stderr)
                   /\ p.launch # "runs" =>
                          (~r.resolved /\ r.error \notin ExecutionErrors)
                   /\ Len(ops[i].spawned) = 1

----------------------------------------------------------------------------
(* Properties of the output channel (SpecLoc) *)

IsPrefix(a, b) == Len(a) <= Len(b) /\ SubSeq(b, 1, Len(a)) = a

\* the command lines among the log's lines
LoggedLines(h, op) == {OutputLog(h, op)[k].line : k \in DOMAIN OutputLog(h, op)}

\* C21: the log is append-only, never cleared: in every step of a call what it
\* has logged so far is a prefix of what it has logged after the step; and every
\* external process the call runs (the which/where and --version probes of
\* interpreter resolution, the manager commands) has its command line in the log.
C21_EveryCommandLineLogged ==
    /\ [][\A i \in OpIds :
              (ops[i].kind # "idle" /\ ops'[i].kind = ops[i].kind)
                  => IsPrefix(OutputLog(host, ops[i]), OutputLog(host, ops'[i]))]_vars
    /\ [](\A i \in OpIds :
            /\ \A k \in DOMAIN ops[i].desc.trace :
                   SystemCommand(host, ops[i].desc.trace[k]) \in LoggedLines(host, ops[i])
            /\ \A k \in DOMAIN ops[i].spawned :
                   ops[i].spawned[k] \in LoggedLines(host, ops[i]))

----------------------------------------------------------------------------
(* Properties of the has-update flag (SpecList) *)

\* C22: in every record a listing returns, hasUpdate is TRUE iff a latest version
\* is present and differs from the installed version; a package whose outdated
\* entry gives a latest version equal to the installed one has hasUpdate = FALSE.
C22_HasUpdateIffLatestDiffers ==
    \A i \in OpIds :
        (ListDone(i) /\ ops[i].returned)
            => \A k \in DOMAIN ops[i].result :
                   LET r == ops[i].result[k]
                   IN  r.hasUpdate <=> (r.latest # Undefined /\ r.latest # r.version)

----------------------------------------------------------------------------
(* Properties of the current-environment slot (SpecCore) *)

\* the call in slot i makes no progress in the step, but for being overtaken and
\* for the create command's question being answered
CallStays(i) ==
    /\ [ops'[i] EXCEPT !.overtaken = ops[i].overtaken, !.pc = ops[i].pc,
                       !.succeeded = ops[i].succeeded] = ops[i]
    /\ ops'[i].pc # ops[i].pc => (ops[i].kind = "create" /\ ops[i].pc = "asked")

\* the step is setActiveEnvironment(n) and nothing else
IsSetActiveStep ==
    /\ \E n \in SetActiveNames :
           /\ environments' = setActive(environments, currentEnv, n).environments
           /\ currentEnv' = setActive(environments, currentEnv, n).currentEnv
    /\ scan' = scan /\ fs' = fs /\ packages' = packages
    /\ \A i \in OpIds : CallStays(i)

\* C23: the current-environment slot has a single writer: every step that
\* changes it is setActive; no step of a package listing, an environment
\* listing, an install, uninstall, update, batch update or environment creation
\* changes it, whether the operation succeeds or fails.
C23_SingleWriter == [][currentEnv' # currentEnv => IsSetActiveStep]_vars

\* an environment has been created, and a batch update has failed for both names,
\* while the slot still holds what the one switch wrote
C23_Witness ==
    /\ currentEnv = EnvWithPip /\ prevEnv = NoEnv
    /\ (Root1 \o <<"env">>) \in fs.dirs
    /\ ops[1].kind = "updateMany" /\ ops[1].pc = "done"
    /\ ops[1].env = EnvWithPip
    /\ ops[1].failed = <<"requests", "flask">>

----------------------------------------------------------------------------
(* Properties of the dashboard panel (SpecDash) *)

\* the panel is hidden with package data loaded less than the timeout ago and no
\* install, update or removal since
CacheFresh ==
    /\ panel.open /\ ~panel.visible /\ panel.loaded
    /\ panel.age < CacheTimeout /\ ~panel.stale

\* becoming visible again with fresh data starts no fetch
CacheKept ==
    [][(CacheFresh /\ panel'.open /\ panel'.visible)
          => panel'.fetching = panel.fetching]_vars

\* a successful install, update or removal from the dashboard starts a fetch
RefreshForced ==
    [][(panel.job.pc = "running" /\ panel'.job = NoJob /\ panel'.message = "Successfully")
          => panel'.fetching = panel.fetching + 1]_vars

\* C24: the dashboard caches package data: the data is not fetched again when
\* the panel becomes visible again within the 15-minute timeout with no
\* install, update or removal since the last load, and a refresh is forced after
\* every successful install, update or removal from the dashboard.
C24_DashboardCache == CacheKept /\ RefreshForced

----------------------------------------------------------------------------
(* Properties of the batch update's two lists (SpecUpd) *)

\* C25: for every updateMany(names) input, duplicated names included, and every
\* pattern of outcomes, the returned succeeded and failed lists are disjoint and
\* their union is exactly the requested names.
C25_SucceededFailedPartition ==
    \A i \in OpIds :
        UpdDone(i) =>
            /\ Elements(ops[i].success) \cap Elements(ops[i].failed) = {}
            /\ Elements(ops[i].success) \cup Elements(ops[i].failed) = Elements(ops[i].names)

\* the same, the requested names being distinct
PartitionOfDistinctNames ==
    \A i \in OpIds :
        (UpdDone(i) /\ Cardinality(Elements(ops[i].names)) = Len(ops[i].names)) =>
            /\ Elements(ops[i].success) \cap Elements(ops[i].failed) = {}
            /\ Elements(ops[i].success) \cup Elements(ops[i].failed) = Elements(ops[i].names)

----------------------------------------------------------------------------
(* Properties of creation followed by activation (SpecEnv) *)

\* getVirtualEnvironments, run on file system f, reports an environment at envPath
Listed(h, f, envPath) ==
    \E k \in 1..CandidateCount(h) :
        /\ CandidateFolder(h, k) \o <<CandidateName(k)>> = envPath
        /\ IsEnvironment(h, f, envPath)

\* the step is the 'Yes' to switching after call i created its environment
SwitchesToCreated(i) ==
    /\ ops[i].kind = "create" /\ ops[i].pc = "asked"
    /\ ops'[i].pc = "done" /\ ops'[i].succeeded

\* C26: after createEnvironment(name) succeeds and the caller activates it with
\* setActive(name) (the 'switch to the new environment' path), the
\* current-environment reference designates the new environment at
\* <first workspace root>/<name> and the next listEnvironments() reports it,
\* whether or not the view has finished enumerating again and whether or not
\* name is one of the candidate names.
C26_CreatedThenActive ==
    [][\A i \in OpIds :
          SwitchesToCreated(i) =>
              LET name == ops[i].names[1]
                  envPath == host.workspaceFolders[1] \o <<name>>
              IN  /\ currentEnv' = [name |-> name, path |-> envPath]
                  /\ Listed(host, fs', envPath)]_vars

\* the same for a candidate name the provider already holds after a scan
ActiveWhenHeld ==
    [][\A i \in OpIds :
          (SwitchesToCreated(i) /\ FindByName(environments, ops[i].names[1], 1) # 0
             /\ environments[FindByName(environments, ops[i].names[1], 1)].path
                  = host.workspaceFolders[1] \o <<ops[i].names[1]>>) =>
              LET name == ops[i].names[1]
                  envPath == host.workspaceFolders[1] \o <<name>>
              IN  /\ currentEnv' = [name |-> name, path |-> envPath]
                  /\ Listed(host, fs', envPath)]_vars

----------------------------------------------------------------------------
(* Properties of overlapping package fetches (SpecTwo) *)

\* C27: when two package-listing fetches by the package provider overlap, the
\* record set the provider holds once both have completed is the result of the
\* fetch that started last.
C27_LastStartedWins ==
    (ListDone(1) /\ ListDone(2)) => packages = SortPackages(ops[2].result)

\* once a fetch has completed, the provider holds the result of one of the
\* completed fetches
HoldsSomeResult ==
    (\E i \in CallPair : ListDone(i)) =>
        \E i \in CallPair : ListDone(i) /\ packages = SortPackages(ops[i].result)

----------------------------------------------------------------------------
(* Properties of the descriptor within one call (SpecCore) *)

\* every command line the call has spawned is descriptor d's
AllSpawnedWith(op, d) ==
    \A k \in DOMAIN op.spawned :
        /\ op.spawned[k].command = d.command
        /\ IsPrefix(d.args, op.spawned[k].args)

\* C28: within one listPackages or updateMany call the descriptor is resolved
\* once, at the start, from the current environment as it was then, and every
\* manager process the call spawns uses that descriptor, even if setActive
\* changes the current environment while the call is suspended.
C28_OneDescriptorPerCall ==
    \A i \in OpIds :
        (ops[i].kind \in {"list", "updateMany"} /\ ops[i].located) =>
            /\ ops[i].desc = getPipCommand(host, fs, ops[i].env)
            /\ AllSpawnedWith(ops[i], ops[i].desc)

\* a batch update has spawned its three processes with the interpreter's pip
\* module although ws1/.venv, with a pip of its own, was switched to meanwhile
C28_Witness ==
    /\ ops[1].kind = "updateMany" /\ ops[1].pc = "done"
    /\ ops[1].overtaken /\ ops[1].env = NoEnv /\ currentEnv = EnvWithPip
    /\ Len(ops[1].spawned) = 3
    /\ getPipCommand(host, fs, currentEnv).command # ops[1].desc.command
    /\ AllSpawnedWith(ops[1], ops[1].desc)

\* a listing has spawned its processes the same way
C28_WitnessList ==
    /\ ListDone(1) /\ ops[1].overtaken /\ Len(ops[1].spawned) >= 2
    /\ getPipCommand(host, fs, currentEnv).command # ops[1].desc.command

----------------------------------------------------------------------------
(* Termination and the number of processes (SpecLive) *)

\* the call in slot i has given its result to its caller
Completed(i) == ops[i].returned \/ ops[i].threw

\* the manager processes the call may have spawned so far
SpawnBound(op) ==
    IF op.kind = "updateMany" THEN 1 + Len(op.names)
    ELSE IF op.kind = "list" THEN 2 + Len(op.packagesData)
    ELSE 1

\* C29: every spawned process eventually closing or failing to spawn, every core
\* operation eventually completes with a result; updateMany(names) has then
\* spawned at most 1 + |names| upgrade processes and listPackages() at most
\* 2 + (number of installed packages) manager processes, and no process is
\* spawned after the operation has returned.
C29_TerminatesWithinBounds ==
    /\ \A i \in OpIds : (ops[i].kind # "idle") ~> Completed(i)
    /\ [](\A i \in OpIds : Len(ops[i].spawned) <= SpawnBound(ops[i]))
    /\ [][\A i \in OpIds :
            (Completed(i) /\ ops'[i].kind = ops[i].kind)
                => ops'[i].spawned = ops[i].spawned]_vars

\* a batch update of two names has returned after three processes, both
\* single upgrades having failed
C29_Witness ==
    /\ UpdDone(1) /\ Completed(1)
    /\ Len(ops[1].names) = 2 /\ Len(ops[1].spawned) = 3
    /\ Len(ops[1].failed) = 2

\* a listing of one installed package has returned after three processes
C29_WitnessList ==
    /\ ListDone(1) /\ Completed(1)
    /\ Len(ops[1].packagesData) = 1 /\ Len(ops[1].spawned) = 3

----------------------------------------------------------------------------
(* Properties of the uninstall and update commands (SpecCmd) *)

\* C30: when the uninstall (or update) command is invoked without a tree item
\* and the user types the name of a package in the provider's held list (and,
\* for uninstall, confirms), the manager's uninstall (or upgrade) is invoked
\* for exactly that typed name.
C30_TypedNameIsUsed ==
    \A i \in OpIds :
        (ops[i].kind \in CommandKinds /\ ops[i].item = "" /\ ops[i].typed # ""
           /\ ops[i].pc = "done") =>
            ops[i].spawned = <<CommandLine(ops[i].desc,
                                           SingleArgv(ops[i].kind, <<ops[i].typed>>))>>

\* with a tree item the manager is invoked for the item's package
ItemNameIsUsed ==
    \A i \in OpIds :
        (ops[i].kind \in CommandKinds /\ ops[i].item # "" /\ ops[i].pc = "done") =>
            ops[i].spawned = <<CommandLine(ops[i].desc,
                                           SingleArgv(ops[i].kind, <<ops[i].item>>))>>

====
